---- MODULE Spec2Model ----
(***************************************************************************)
(* Verification model of the rural water analytics engines:                *)
(*   - src/src/nrw/water_balance.py      (IWA water balance)               *)
(*   - src/src/energy/pump_scheduling.py (greedy pump schedule optimizer)  *)
(*   - src/src/nrw/mnf_analysis.py       (minimum night flow analysis)     *)
(*   - src/src/nrw/leak_detection.py     (leak indicators of a zone)       *)
(*   - src/api/auth.py, src/api/routers  (bearer-token guard of the API)   *)
(*   - src/src/energy/efficiency_analysis.py (pump efficiency report)      *)
(*   - src/src/compliance/obligation_tracking.py (obligation list, update) *)
(*                                                                         *)
(* Numbers.  The program computes in Python floats.  The model computes in *)
(* exact integers: a model integer k of a pump request stands for the      *)
(* float k / Scale (volumes in m3, power in kW, rates in $/kWh).  With     *)
(* Scale a power of two every such value, and every sum, difference and    *)
(* product the optimizer forms of them, is a float without rounding error, *)
(* so the integer arithmetic is the float arithmetic.  Water-balance       *)
(* volumes are integers of a common unit (the properties stated of them    *)
(* are unit free), dates are day ordinals, and a value produced by         *)
(* round(x, 2) is an integer count of hundredths.                          *)
(***************************************************************************)
EXTENDS Integers, Sequences, FiniteSets, TLC

(***************************************************************************)
(* Bounds of the model                                                     *)
(***************************************************************************)
\* water-balance volumes are drawn from -1..MaxVolume (system input, billed
\* metered) and -1..MaxPart (the five defaulted components)
MaxVolume == 3
MaxPart == 1
\* a further system input volume, large enough for round(x, 2) to meet a tie
TieVolume == 32
\* period_start and period_end are drawn from 0..MaxDay
MaxDay == 1
\* fixed-point resolution of the pump model: the integer k stands for the
\* float k / Scale
Scale == 8
\* a forecast (demand, rates) is HeadHours free values followed by one value
\* repeated for the rest of the day
HeadHours == 1
\* PumpSchedule.generated_at = datetime.now() is a reading in 0..MaxClock
MaxClock == 1
\* fixed-point resolution of the MNF model: the flow k stands for the float
\* k / FlowScale
FlowScale == 2048
\* a series of hourly flows has up to Hours + MaxExtraHours readings
MaxExtraHours == 1
\* the second and the sixth MNF reading of a zone differ from the others by
\* -MaxBump..MaxBump
MaxBump == 1
\* significant bits of a float of the efficiency model
Precision == 9
\* discharge heads are 11..11 + MaxHead m, power readings 15..15 + MaxPower kW
MaxHead == 1
MaxPower == 4

(***************************************************************************)
(* Arithmetic helpers                                                      *)
(***************************************************************************)
Max(a, b) == IF a >= b THEN a ELSE b

Min(a, b) == IF a <= b THEN a ELSE b

Abs(a) == IF a < 0 THEN -a ELSE a

\* n / d rounded to the nearest integer, ties to the even neighbour (the
\* rule of Python's round); d # 0
RoundHalfEven(n, d) ==
    LET nn == IF d < 0 THEN -n ELSE n
        dd == IF d < 0 THEN -d ELSE d
        q  == nn \div dd
        r  == nn % dd
    IN  IF 2 * r < dd THEN q
        ELSE IF 2 * r > dd THEN q + 1
        ELSE IF q % 2 = 0 THEN q ELSE q + 1

\* n / d rounded towards minus infinity
RoundDown(n, d) ==
    LET nn == IF d < 0 THEN -n ELSE n
        dd == IF d < 0 THEN -d ELSE d
    IN  nn \div dd

\* round(n / d, 2), as a count of hundredths
Round2(n, d) == RoundHalfEven(100 * n, d)

\* round(n / d, 1) and round(n / d, 3), as counts of tenths and of thousandths
Round1(n, d) == RoundHalfEven(10 * n, d)

Round3(n, d) == RoundHalfEven(1000 * n, d)

\* Exact fractions, for the quantities the MNF and leak engines divide.
\* Rat(n, d) is the number n / d with d > 0; d = 0 with n > 0 is float("inf").
RECURSIVE GCD(_, _)
GCD(a, b) == IF b = 0 THEN a ELSE GCD(b, a % b)

Rat(n, d) ==
    LET g == GCD(Abs(n), Abs(d))
    IN  IF g = 0 THEN [n |-> 0, d |-> 1]
        ELSE IF d < 0 THEN [n |-> (-n) \div g, d |-> (-d) \div g]
        ELSE [n |-> n \div g, d |-> d \div g]

Whole(k) == [n |-> k, d |-> 1]

Infinity == [n |-> 1, d |-> 0]

IsInfinite(x) == x.d = 0

Less(x, y) == x.n * y.d < y.n * x.d

AtLeast(x, y) == ~Less(x, y)

Plus(x, y) ==
    LET l == (x.d \div GCD(x.d, y.d)) * y.d
    IN  Rat(x.n * (l \div x.d) + y.n * (l \div y.d), l)

Minus(x, y) == Plus(x, [n |-> -y.n, d |-> y.d])

Times(x, y) ==
    LET a == Rat(x.n, y.d)
        b == Rat(y.n, x.d)
    IN  Rat(a.n * b.n, a.d * b.d)

\* x / y for y > 0
Over(x, y) == Times(x, [n |-> y.d, d |-> y.n])

RatAbs(x) == [n |-> Abs(x.n), d |-> x.d]

RatMax(x, y) == IF AtLeast(x, y) THEN x ELSE y

RatMin(x, y) == IF Less(y, x) THEN y ELSE x

\* round(x, 1), round(x, 2), round(x, 3) and round(x, 4) of a finite x, as
\* counts of tenths, hundredths, thousandths and ten-thousandths
RoundTo(x, units) == RoundHalfEven(units * x.n, x.d)

(***************************************************************************)
(* State                                                                   *)
(***************************************************************************)
VARIABLES
    wb_pc,        \* position of the water-balance request being served
    wb_request,   \* the raw request fields, or NoValue
    wb_result,    \* the WaterBalance record built, or NoValue
    wb_error,     \* the error raised for the request, or "none"
    call,         \* call id -> the frame of that optimize_pump_schedule call
    mnf_call,     \* call id -> the frame of that analyze_minimum_night_flow call
    leak_call,    \* call id -> the frame of that analyze_leak_indicators call
    http,         \* the HTTP request the application is answering
    eff_call,     \* call id -> the frame of that analyze_pump_efficiency call
    today,        \* the day date.today() returns
    obligations_db, \* the module-level dictionary _obligations_db
    ob_call       \* call id -> the frame of that obligation-tracking call

wb_vars == <<wb_pc, wb_request, wb_result, wb_error>>

ob_vars == <<today, obligations_db, ob_call>>

vars == <<wb_pc, wb_request, wb_result, wb_error, call, mnf_call, leak_call, http, eff_call, today, obligations_db, ob_call>>

\* what the water-balance steps, the steps of a pump call, of an MNF call, of a
\* leak-indicator call, of the HTTP application, of an efficiency call and of
\* the obligation-tracking calls leave alone
wb_others == <<call, mnf_call, leak_call, http, eff_call, ob_vars>>

pump_others == <<wb_vars, mnf_call, leak_call, http, eff_call, ob_vars>>

mnf_others == <<wb_vars, call, leak_call, http, eff_call, ob_vars>>

leak_others == <<wb_vars, call, mnf_call, http, eff_call, ob_vars>>

http_others == <<wb_vars, call, mnf_call, leak_call, eff_call, ob_vars>>

eff_others == <<wb_vars, call, mnf_call, leak_call, http, ob_vars>>

ob_others == <<wb_vars, call, mnf_call, leak_call, http, eff_call>>

NoValue == [none |-> TRUE]

(***************************************************************************)
(* Water balance: src/src/nrw/water_balance.py                             *)
(***************************************************************************)
\* Field(..., gt=0) of system_input_volume
SystemInputVolumeAcceptedGe(v) == v >= 0

SystemInputVolumeAccepted(v) == v > 0

\* WaterBalanceInput(...): pydantic's validation of the field constraints
WaterBalanceInputValid(req) ==
    /\ SystemInputVolumeAccepted(req.system_input_volume)
    /\ req.billed_metered_consumption >= 0
    /\ req.billed_unmetered_consumption >= 0
    /\ req.unbilled_metered_consumption >= 0
    /\ req.unbilled_unmetered_consumption >= 0
    /\ req.unauthorized_consumption >= 0
    /\ req.meter_inaccuracies >= 0

\* the requests a client can send
WaterBalanceRequests ==
    [ system_input_volume            : (-1..MaxVolume) \cup {TieVolume},
      billed_metered_consumption     : -1..MaxVolume,
      billed_unmetered_consumption   : -1..MaxPart,
      unbilled_metered_consumption   : -1..MaxPart,
      unbilled_unmetered_consumption : -1..MaxPart,
      unauthorized_consumption       : -1..MaxPart,
      meter_inaccuracies             : -1..MaxPart,
      period_start                   : 0..MaxDay,
      period_end                     : 0..MaxDay ]

BilledAuthorized(input) ==
    input.billed_metered_consumption + input.billed_unmetered_consumption

UnbilledAuthorized(input) ==
    input.unbilled_metered_consumption + input.unbilled_unmetered_consumption

ApparentLosses(input) ==
    input.unauthorized_consumption + input.meter_inaccuracies

RealLossesIgnoringApparent(input) ==
    LET total_authorized == BilledAuthorized(input) + UnbilledAuthorized(input)
    IN  Max(0, input.system_input_volume - total_authorized)

RealLosses(input) ==
    LET total_authorized == BilledAuthorized(input) + UnbilledAuthorized(input)
    IN  Max(0, input.system_input_volume - total_authorized - ApparentLosses(input))

PeriodDays(input) == (input.period_end - input.period_start) + 1

calculate_water_balance(input) ==
    [ system_input_volume             |-> input.system_input_volume,
      billed_authorized_consumption   |-> BilledAuthorized(input),
      unbilled_authorized_consumption |-> UnbilledAuthorized(input),
      apparent_losses                 |-> ApparentLosses(input),
      real_losses                     |-> RealLosses(input),
      period_start                    |-> input.period_start,
      period_end                      |-> input.period_end,
      period_days                     |-> PeriodDays(input) ]

\* the computed fields of a WaterBalance record
authorized_consumption(wb) ==
    wb.billed_authorized_consumption + wb.unbilled_authorized_consumption

water_losses(wb) == wb.apparent_losses + wb.real_losses

revenue_water(wb) == wb.billed_authorized_consumption

non_revenue_water_less_authorized(wb) ==
    wb.system_input_volume - authorized_consumption(wb)

non_revenue_water(wb) == wb.system_input_volume - revenue_water(wb)

\* percentages are counts of hundredths of a percent
nrw_percentage_truncating(wb) ==
    IF wb.system_input_volume = 0 THEN 0
    ELSE RoundDown(100 * non_revenue_water(wb) * 100, wb.system_input_volume)

nrw_percentage(wb) ==
    IF wb.system_input_volume = 0 THEN 0
    ELSE Round2(non_revenue_water(wb) * 100, wb.system_input_volume)

real_losses_percentage(wb) ==
    IF wb.system_input_volume = 0 THEN 0
    ELSE Round2(wb.real_losses * 100, wb.system_input_volume)

apparent_losses_percentage(wb) ==
    IF wb.system_input_volume = 0 THEN 0
    ELSE Round2(wb.apparent_losses * 100, wb.system_input_volume)

\* WaterBalance(...) built directly: the result model constrains no field
WaterBalanceRecords ==
    [ system_input_volume             : (-1..MaxVolume) \cup {TieVolume},
      billed_authorized_consumption   : 0..MaxVolume,
      unbilled_authorized_consumption : 0..MaxPart,
      apparent_losses                 : 0..MaxPart,
      real_losses                     : 0..MaxVolume,
      period_start                    : {0},
      period_end                      : {0},
      period_days                     : {1} ]

InitWaterBalance ==
    /\ wb_pc = "idle"
    /\ wb_request = NoValue
    /\ wb_result = NoValue
    /\ wb_error = "none"

\* POST /water-balance, first half: WaterBalanceInput(...) is constructed
\* from the request and raises a validation error on a violated constraint
ValidateWaterBalanceInput ==
    /\ wb_pc = "idle"
    /\ \E req \in WaterBalanceRequests :
          /\ wb_request' = req
          /\ IF WaterBalanceInputValid(req)
             THEN wb_pc' = "validated" /\ wb_error' = "none"
             ELSE wb_pc' = "rejected" /\ wb_error' = "ValidationError"
    /\ wb_result' = NoValue
    /\ UNCHANGED wb_others

\* second half: calculate_water_balance(input_data) and the response
CalculateWaterBalance ==
    /\ wb_pc = "validated"
    /\ wb_result' = calculate_water_balance(wb_request)
    /\ wb_pc' = "done"
    /\ UNCHANGED <<wb_request, wb_error, wb_others>>

\* a WaterBalance record constructed by a caller of the library
ConstructWaterBalance ==
    /\ wb_pc = "idle"
    /\ \E rec \in WaterBalanceRecords : wb_result' = rec
    /\ wb_pc' = "constructed"
    /\ UNCHANGED <<wb_request, wb_error, wb_others>>


(***************************************************************************)
(* Pump scheduling: src/src/energy/pump_scheduling.py                      *)
(***************************************************************************)
\* for hour in range(24)
Hours == 24

\* best_hour = None
NoHour == -1

\* the values a request field can take (k stands for k / Scale)
CapacityValues == {0, 2, 3}

CurrentLevelValues == {-1, 0, 3}

MinLevelValues == {-1, 0, 1}

FlowRateValues == {0, 1, 2}

PowerValues == {0, 3}

DemandValues == {-1, 1, 2}

RateValues == {-1, 1, 2}

\* a 24-hour forecast: the head values, then the tail value
Forecast(head, tail) ==
    [h \in 1..Hours |-> IF h <= Len(head) THEN head[h] ELSE tail]

Forecasts(values) ==
    {Forecast(head, tail) : head \in [1..HeadHours -> values], tail \in values}

ScheduleRequests ==
    [ pump_id               : {"PUMP-001"},
      tank_capacity_m3      : CapacityValues,
      tank_current_level_m3 : CurrentLevelValues,
      tank_min_level_m3     : MinLevelValues,
      pump_flow_rate_m3h    : FlowRateValues,
      pump_power_kw         : PowerValues,
      demand_forecast_m3h   : Forecasts(DemandValues),
      electricity_rates     : Forecasts(RateValues),
      optimization_date     : {0} ]

\* ScheduleOptimizationRequest(...): pydantic's validation of the fields
ScheduleRequestValid(req) ==
    /\ req.tank_capacity_m3 > 0
    /\ req.tank_current_level_m3 >= 0
    /\ req.tank_min_level_m3 >= 0
    /\ req.pump_flow_rate_m3h > 0
    /\ req.pump_power_kw > 0
    /\ Len(req.demand_forecast_m3h) = 24
    /\ Len(req.electricity_rates) = 24

\* the frame of a call that has not started
IdleFrame ==
    [ pc               |-> "idle",
      request          |-> NoValue,
      error            |-> "none",
      hour             |-> 0,
      hourly_schedules |-> << >>,
      tank_level       |-> 0,
      total_runtime    |-> 0,
      total_cost       |-> 0,
      mandatory_hours  |-> {},
      sim_level        |-> 0,
      baseline_cost    |-> 0,
      result           |-> NoValue ]

\* lines 129-138: the scan for the cheapest hour of 0..last that is not yet
\* mandatory.  best_rate starts at float("inf"): while best_hour is None
\* every rate is below it.
RECURSIVE BestHourScan(_, _, _, _, _, _)
BestHourScan(rates, mandatory, h, last, best_hour, best_rate) ==
    IF h > last THEN best_hour
    ELSE IF h \notin mandatory /\ (best_hour = NoHour \/ rates[h + 1] < best_rate)
         THEN BestHourScan(rates, mandatory, h + 1, last, h, rates[h + 1])
         ELSE BestHourScan(rates, mandatory, h + 1, last, best_hour, best_rate)

\* the cheapest hour of 0..hour that is not yet mandatory, the latest on ties
LatestCheapestHour(req, mandatory, hour) ==
    LET candidates == (0..hour) \ mandatory
    IN  IF candidates = {} THEN NoHour
        ELSE CHOOSE h \in candidates :
                 \A g \in candidates :
                     \/ req.electricity_rates[h + 1] < req.electricity_rates[g + 1]
                     \/ /\ req.electricity_rates[h + 1] = req.electricity_rates[g + 1]
                        /\ h >= g

BestHour(req, mandatory, hour) ==
    BestHourScan(req.electricity_rates, mandatory, 0, hour, NoHour, 0)

\* lines 143-148: the simulation re-run over hours h..last
RECURSIVE Resimulate(_, _, _, _, _)
Resimulate(req, mandatory, h, last, level) ==
    IF h > last THEN level
    ELSE LET pumped  == IF h \in mandatory
                        THEN level + req.pump_flow_rate_m3h
                        ELSE level
             drained == pumped - req.demand_forecast_m3h[h + 1]
         IN  CHOOSE level_after \in
                 { Resimulate(req, mandatory, h + 1, last, capped) :
                       capped \in {Min(drained, req.tank_capacity_m3)} } : TRUE

\* one iteration of the first pass that marks every cheapest hour of 0..hour
\* that is not yet mandatory, not only the earliest
Pass1BodyMarkingTies(f) ==
    LET req      == f.request
        lowered  == f.sim_level - req.demand_forecast_m3h[f.hour + 1]
        best     == BestHour(req, f.mandatory_hours, f.hour)
        marked   == f.mandatory_hours \cup
                       {h \in (0..f.hour) \ f.mandatory_hours :
                           req.electricity_rates[h + 1]
                               = req.electricity_rates[best + 1]}
    IN  IF lowered < req.tank_min_level_m3 /\ best # NoHour
        THEN [f EXCEPT !.mandatory_hours = marked,
                       !.sim_level = Resimulate(req, marked, 0, f.hour,
                                                f.tank_level)]
        ELSE [f EXCEPT !.sim_level = lowered]

\* lines 124-148: one iteration of the first pass, on frame f
Pass1Body(f) ==
    LET req      == f.request
        lowered  == f.sim_level - req.demand_forecast_m3h[f.hour + 1]
        best     == BestHour(req, f.mandatory_hours, f.hour)
        marked   == f.mandatory_hours \cup {best}
    IN  IF lowered < req.tank_min_level_m3 /\ best # NoHour
        THEN [f EXCEPT !.mandatory_hours = marked,
                       !.sim_level = Resimulate(req, marked, 0, f.hour,
                                                f.tank_level)]
        ELSE [f EXCEPT !.sim_level = lowered]

\* lines 155-157
BaselineCost(req) ==
    LET RECURSIVE Sum(_)
        Sum(h) == IF h = 0 THEN 0
                  ELSE Sum(h - 1) + req.pump_power_kw * req.electricity_rates[h]
    IN  Sum(Len(req.electricity_rates))

\* line 161
PumpOn(hour, mandatory) == hour \in mandatory

\* line 169
RuntimeEveryHour(total_runtime, pump_on) == total_runtime + 1

RuntimeAfter(total_runtime, pump_on) ==
    IF pump_on THEN total_runtime + 1 ELSE total_runtime

\* line 176
UnclampedLevel(level) == level

ClampLevel(level) == Max(0, level)

\* lines 179-185: tank_level_m3 and energy_cost are rounded to 2 decimals
HourlyScheduleOneBased(hour, pump_on, tank_level, hour_cost, rate) ==
    [ hour             |-> hour + 1,
      pump_on          |-> pump_on,
      tank_level_m3    |-> Round2(tank_level, Scale),
      energy_cost      |-> Round2(hour_cost, Scale * Scale),
      electricity_rate |-> rate ]

HourlySchedule(hour, pump_on, tank_level, hour_cost, rate) ==
    [ hour             |-> hour,
      pump_on          |-> pump_on,
      tank_level_m3    |-> Round2(tank_level, Scale),
      energy_cost      |-> Round2(hour_cost, Scale * Scale),
      electricity_rate |-> rate ]

\* one iteration of the second pass that does not cap the level at the
\* capacity
Pass2BodyUncapped(f) ==
    LET req       == f.request
        pump_on   == PumpOn(f.hour, f.mandatory_hours)
        demand    == req.demand_forecast_m3h[f.hour + 1]
        rate      == req.electricity_rates[f.hour + 1]
        filled    == IF pump_on
                     THEN f.tank_level + req.pump_flow_rate_m3h
                     ELSE f.tank_level
        hour_cost == IF pump_on THEN req.pump_power_kw * rate ELSE 0
        level     == ClampLevel(filled - demand)
    IN  [f EXCEPT !.tank_level = level,
                  !.total_runtime = RuntimeAfter(f.total_runtime, pump_on),
                  !.total_cost = f.total_cost + hour_cost,
                  !.hourly_schedules =
                      Append(f.hourly_schedules,
                             HourlySchedule(f.hour, pump_on, level, hour_cost, rate))]

\* lines 161-186: one iteration of the second pass, on frame f
Pass2Body(f) ==
    LET req       == f.request
        pump_on   == PumpOn(f.hour, f.mandatory_hours)
        demand    == req.demand_forecast_m3h[f.hour + 1]
        rate      == req.electricity_rates[f.hour + 1]
        filled    == IF pump_on
                     THEN Min(f.tank_level + req.pump_flow_rate_m3h,
                              req.tank_capacity_m3)
                     ELSE f.tank_level
        hour_cost == IF pump_on THEN req.pump_power_kw * rate ELSE 0
        level     == ClampLevel(filled - demand)
    IN  [f EXCEPT !.tank_level = level,
                  !.total_runtime = RuntimeAfter(f.total_runtime, pump_on),
                  !.total_cost = f.total_cost + hour_cost,
                  !.hourly_schedules =
                      Append(f.hourly_schedules,
                             HourlySchedule(f.hour, pump_on, level, hour_cost, rate))]

SeqMin(s) == CHOOSE x \in {s[i] : i \in DOMAIN s} :
                 \A i \in DOMAIN s : x <= s[i]

SeqMax(s) == CHOOSE x \in {s[i] : i \in DOMAIN s} :
                 \A i \in DOMAIN s : x >= s[i]

\* lines 189-202, at clock reading now
PumpScheduleResult(f, now) ==
    LET tank_levels  == [i \in DOMAIN f.hourly_schedules |->
                            f.hourly_schedules[i].tank_level_m3]
        total_energy == f.total_runtime * f.request.pump_power_kw
    IN  [ pump_id             |-> f.request.pump_id,
          optimization_date   |-> f.request.optimization_date,
          generated_at        |-> now,
          hourly_schedule     |-> f.hourly_schedules,
          total_runtime_hours |-> f.total_runtime,
          total_energy_kwh    |-> Round2(total_energy, Scale),
          total_cost          |-> Round2(f.total_cost, Scale * Scale),
          baseline_cost       |-> Round2(f.baseline_cost, Scale * Scale),
          min_tank_level_m3   |-> SeqMin(tank_levels),
          max_tank_level_m3   |-> SeqMax(tank_levels) ]

\* lines 112-202 run from entry to return without interruption, the clock
\* read at now
RECURSIVE RunPass1(_)
RunPass1(f) ==
    IF f.hour = Hours THEN f
    ELSE RunPass1([Pass1Body(f) EXCEPT !.hour = f.hour + 1])

RECURSIVE RunPass2(_)
RunPass2(f) ==
    IF f.hour = Hours THEN f
    ELSE RunPass2([Pass2Body(f) EXCEPT !.hour = f.hour + 1])

optimize_pump_schedule(request, now) ==
    LET entry    == [IdleFrame EXCEPT
                        !.request = request,
                        !.tank_level = request.tank_current_level_m3,
                        !.sim_level = request.tank_current_level_m3]
        marked   == RunPass1(entry)
        baseline == [marked EXCEPT !.baseline_cost = BaselineCost(request),
                                   !.hour = 0]
    IN  PumpScheduleResult(RunPass2(baseline), now)

\* lines 112-121: tank_level, total_runtime, total_cost, hourly_schedules,
\* mandatory_hours and sim_level are local variables of the call
LocalsWithSharedMandatoryHours(c) ==
    [call[c] EXCEPT !.mandatory_hours =
        UNION {call[d].mandatory_hours : d \in DOMAIN call}]

Locals(c) == call[c]

InitPump(ids) == call = [c \in ids |-> IdleFrame]

\* ScheduleOptimizationRequest(...) is constructed (a validation error on a
\* violated constraint), then lines 113-121 of optimize_pump_schedule
StartOptimizeOf(c, requests) ==
    /\ call[c].pc = "idle"
    /\ \E req \in requests :
          call' = [call EXCEPT ![c] =
             IF ScheduleRequestValid(req)
             THEN [IdleFrame EXCEPT !.pc = "pass1",
                                    !.request = req,
                                    !.tank_level = req.tank_current_level_m3,
                                    !.sim_level = req.tank_current_level_m3]
             ELSE [IdleFrame EXCEPT !.pc = "rejected",
                                    !.request = req,
                                    !.error = "ValidationError"]]
    /\ UNCHANGED pump_others

StartOptimize(c) == StartOptimizeOf(c, ScheduleRequests)

\* lines 123-148: one iteration of the first loop
Pass1Iteration(c) ==
    /\ call[c].pc = "pass1"
    /\ call' = [call EXCEPT ![c] =
          LET g == Pass1Body(Locals(c))
          IN  IF call[c].hour + 1 < Hours
              THEN [g EXCEPT !.hour = call[c].hour + 1]
              ELSE [g EXCEPT !.pc = "baseline"]]
    /\ UNCHANGED pump_others

\* lines 152-157
ComputeBaseline(c) ==
    /\ call[c].pc = "baseline"
    /\ call' = [call EXCEPT ![c] =
          [call[c] EXCEPT !.baseline_cost = BaselineCost(call[c].request),
                          !.hour = 0,
                          !.pc = "pass2"]]
    /\ UNCHANGED pump_others

\* lines 160-186: one iteration of the second loop
Pass2Iteration(c) ==
    /\ call[c].pc = "pass2"
    /\ call' = [call EXCEPT ![c] =
          LET g == Pass2Body(Locals(c))
          IN  IF call[c].hour + 1 < Hours
              THEN [g EXCEPT !.hour = call[c].hour + 1]
              ELSE [g EXCEPT !.pc = "summary"]]
    /\ UNCHANGED pump_others

\* lines 188-202: the PumpSchedule is built and returned
ReturnSchedule(c) ==
    /\ call[c].pc = "summary"
    /\ \E now \in 0..MaxClock :
          call' = [call EXCEPT ![c] =
             [call[c] EXCEPT !.result = PumpScheduleResult(call[c], now),
                             !.pc = "done"]]
    /\ UNCHANGED pump_others

(***************************************************************************)
(* Minimum night flow: src/src/nrw/mnf_analysis.py                         *)
(*                                                                         *)
(* A model flow k stands for the float k / FlowScale m3/h.  With FlowScale *)
(* a power of two the flows, their sums and their means over 4 and over 16 *)
(* hours are exact floats; the quantities the engine divides are kept as   *)
(* exact fractions and a value produced by round(x, 3) is an integer count *)
(* of thousandths (round(x, 2): of hundredths).                            *)
(***************************************************************************)
\* lines 70-73
NIGHT_START_HOUR == 1

NIGHT_END_HOUR == 5

MNF_WINDOW_START == 2

MNF_WINDOW_END == 4

\* line 78, in litres per connection per hour
LEGITIMATE_NIGHT_USE_DEFAULT == 3

\* line 123: day_flows = flows[6:22]
DAY_START_HOUR == 6

DAY_END_HOUR == 22

\* the float a model flow k stands for
FlowValue(k) == Rat(k, FlowScale)

\* the values an hourly reading takes at night (hours 1-4), by day, and beyond
\* the first 24 hours
NightFlowValues == {0, FlowScale, FlowScale + 1, (3 * FlowScale) \div 2}

DayFlowValues == {0, 2 * FlowScale, 4 * FlowScale}

ExtraFlowValues == {0, 8 * FlowScale}

ConnectionValues == {199, 200, 499, 500}

SeriesLengths == {0} \cup ((Hours - 1)..(Hours + MaxExtraHours))

\* a series of len readings: the night readings at hours 1-4, the day value
\* at the other hours of the first day, the extra readings from hour 24 on
FlowSeries(night, day, extra, len) ==
    [h \in 1..len |->
        IF h - 1 \in NIGHT_START_HOUR..(NIGHT_END_HOUR - 1)
        THEN night[h - NIGHT_START_HOUR]
        ELSE IF h > Hours THEN extra[h - Hours] ELSE day]

HourlyFlowSeries ==
    UNION { { FlowSeries(night, day, extra, len) :
                  night \in [1..(NIGHT_END_HOUR - NIGHT_START_HOUR) -> NightFlowValues],
                  day   \in DayFlowValues,
                  extra \in [1..Max(0, len - Hours) -> ExtraFlowValues] } :
            len \in SeriesLengths }

\* the arguments of a call; legitimate_night_use_lph is left to its default
MnfRequests ==
    [ hourly_flows        : HourlyFlowSeries,
      service_connections : ConnectionValues,
      average_pressure    : {40} ]

\* s[a:b] of Python, for 0 <= a
Slice(s, a, b) == SubSeq(s, a + 1, Min(b, Len(s)))

RECURSIVE SeqSum(_)
SeqSum(s) == IF s = << >> THEN 0 ELSE Head(s) + SeqSum(Tail(s))

\* s.index(v): the offset of the first element equal to v
ListIndex(s, v) ==
    CHOOSE i \in 0..(Len(s) - 1) :
        s[i + 1] = v /\ \A j \in 0..(i - 1) : s[j + 1] # v

\* line 107, negated
SufficientReadingsOneShort(hourly_flows) == Len(hourly_flows) >= Hours - 1

SufficientReadings(hourly_flows) == Len(hourly_flows) >= Hours

\* line 111: flows = hourly_flows[:24]
LastDay(hourly_flows) ==
    SubSeq(hourly_flows, Max(1, Len(hourly_flows) - Hours + 1), Len(hourly_flows))

FirstDay(hourly_flows) == Slice(hourly_flows, 0, Hours)

\* line 114
WholeNightWindow(flows) == Slice(flows, NIGHT_START_HOUR, NIGHT_END_HOUR)

MnfWindow(flows) == Slice(flows, MNF_WINDOW_START, MNF_WINDOW_END)

\* line 115 (a model flow)
MinimumFlow(flows) == SeqMin(MnfWindow(flows))

\* line 116
MnfHour(flows) ==
    MNF_WINDOW_START + ListIndex(MnfWindow(flows), MinimumFlow(flows))

\* lines 119-120
AverageNightFlow(flows) ==
    LET night_flows == Slice(flows, NIGHT_START_HOUR, NIGHT_END_HOUR)
    IN  Rat(SeqSum(night_flows), Len(night_flows) * FlowScale)

\* lines 123-127
NightDayRatio(flows) ==
    LET day_flows        == Slice(flows, DAY_START_HOUR, DAY_END_HOUR)
        average_day_flow == Rat(SeqSum(day_flows), Len(day_flows) * FlowScale)
    IN  IF Less(Whole(0), average_day_flow)
        THEN Over(AverageNightFlow(flows), average_day_flow)
        ELSE Whole(1)

\* lines 184-187
SmallSystemPenaltySwapped(service_connections) ==
    IF service_connections < 200 THEN 5
    ELSE IF service_connections < 500 THEN 15
    ELSE 0

SmallSystemPenalty(service_connections) ==
    IF service_connections < 200 THEN 15
    ELSE IF service_connections < 500 THEN 5
    ELSE 0

\* lines 166-211
assess_confidence(minimum_flow, average_night_flow, night_day_ratio, service_connections) ==
    LET ratio_penalty ==
            IF Less(Rat(4, 10), night_day_ratio) THEN 20
            ELSE IF Less(Rat(3, 10), night_day_ratio) THEN 10
            ELSE 0
        variance ==
            IF Less(Whole(0), minimum_flow)
            THEN Over(RatAbs(Minus(average_night_flow, minimum_flow)),
                      minimum_flow)
            ELSE Whole(0)
        variance_penalty ==
            IF Less(Rat(3, 10), variance) THEN 15
            ELSE IF Less(Rat(2, 10), variance) THEN 5
            ELSE 0
        score == 100 - SmallSystemPenalty(service_connections)
                     - ratio_penalty - variance_penalty
    IN  IF score >= 80 THEN "high"
        ELSE IF score >= 60 THEN "medium"
        ELSE "low"

\* lines 110-163: the MNFResult of a call whose series is long enough
analyze_minimum_night_flow(hourly_flows, service_connections, average_pressure, legitimate_night_use_lph) ==
    LET flows              == FirstDay(hourly_flows)
        minimum_flow       == FlowValue(MinimumFlow(flows))
        average_night_flow == AverageNightFlow(flows)
        night_day_ratio    == NightDayRatio(flows)
        legitimate_use_m3h ==
            Rat(legitimate_night_use_lph * service_connections, 1000)
        background_leakage ==
            RatMax(Whole(0), Minus(minimum_flow, legitimate_use_m3h))
        \* night_day_factor = 1.25
        daily_leakage      == Times(Times(background_leakage, Whole(24)),
                                    Rat(5, 4))
    IN  [ minimum_flow_m3h                   |-> RoundTo(minimum_flow, 1000),
          mnf_hour                           |-> MnfHour(flows),
          average_night_flow_m3h             |-> RoundTo(average_night_flow, 1000),
          estimated_legitimate_night_use_m3h |-> RoundTo(legitimate_use_m3h, 1000),
          estimated_background_leakage_m3h   |-> RoundTo(background_leakage, 1000),
          estimated_daily_leakage_m3         |-> RoundTo(daily_leakage, 100),
          service_connections                |-> service_connections,
          average_pressure_m                 |-> average_pressure,
          night_day_ratio                    |-> RoundTo(night_day_ratio, 1000),
          confidence                         |->
              assess_confidence(minimum_flow, average_night_flow,
                                night_day_ratio, service_connections) ]

MnfResultOf(req) ==
    analyze_minimum_night_flow(req.hourly_flows, req.service_connections,
                               req.average_pressure,
                               LEGITIMATE_NIGHT_USE_DEFAULT)

\* the frame of a call that has not started
IdleMnfFrame ==
    [ pc      |-> "idle",
      request |-> NoValue,
      error   |-> "none",
      result  |-> NoValue ]

InitMnf(ids) == mnf_call = [c \in ids |-> IdleMnfFrame]

\* lines 106-108: the call is entered and the length of the series is checked
CheckReadingsOf(c, requests) ==
    /\ mnf_call[c].pc = "idle"
    /\ \E req \in requests :
          mnf_call' = [mnf_call EXCEPT ![c] =
             IF SufficientReadings(req.hourly_flows)
             THEN [IdleMnfFrame EXCEPT !.pc = "analysing", !.request = req]
             ELSE [IdleMnfFrame EXCEPT !.pc = "raised",
                                       !.request = req,
                                       !.error = "ValueError"]]
    /\ UNCHANGED mnf_others

CheckReadings(c) == CheckReadingsOf(c, MnfRequests)

\* lines 110-163: the analysis, and the MNFResult returned
AnalyzeMinimumNightFlow(c) ==
    /\ mnf_call[c].pc = "analysing"
    /\ mnf_call' = [mnf_call EXCEPT ![c] =
          [mnf_call[c] EXCEPT !.result = MnfResultOf(mnf_call[c].request),
                              !.pc = "done"]]
    /\ UNCHANGED mnf_others

(***************************************************************************)
(* Leak indicators: src/src/nrw/leak_detection.py                          *)
(*                                                                         *)
(* MNF readings, pressure, pipe length and connections are integers (exact *)
(* floats); means, slope, leakage rate, ILI and the scores are exact       *)
(* fractions, float("inf") is Infinity, and a field produced by            *)
(* round(x, k) is an integer count of 10^-k.                               *)
(***************************************************************************)
\* api/routers/nrw.py line 63: mnf_values has min_length=7
MinReadings == 7

\* the values of a request: a level base, with bumps at the second and at the
\* sixth reading
BaseMnfValues == {-1, 1, 3, 5, 10, 20}

BumpValues == (-MaxBump)..MaxBump

MnfReadings(base, early, late, len) ==
    [i \in 1..len |-> IF i = 2 THEN base + early
                      ELSE IF i = 6 THEN base + late
                      ELSE base]

MnfValueSeries ==
    { MnfReadings(base, early, late, MinReadings) :
          base \in BaseMnfValues, early \in BumpValues, late \in BumpValues }
    \cup { MnfReadings(1, 0, 0, MinReadings - 1) }

LeakRequests ==
    [ zone_id             : {"ZONE-A"},
      mnf_values          : MnfValueSeries,
      system_pressure     : {-1, 0, 40},
      pipe_length_km      : {0, 1, 10},
      service_connections : {0, 100, 500} ]

\* LeakIndicatorRequest(...): pydantic's validation of the fields
LeakRequestValid(req) ==
    /\ Len(req.mnf_values) >= MinReadings
    /\ req.system_pressure >= 0
    /\ req.pipe_length_km > 0
    /\ req.service_connections > 0

\* line 96
AverageMnf(mnf_values) == Rat(SeqSum(mnf_values), Len(mnf_values))

\* lines 99-106: the slope of the least-squares line through the readings
TrendSlope(mnf_values) ==
    LET n      == Len(mnf_values)
        x_mean == Rat(n - 1, 2)
        y_mean == AverageMnf(mnf_values)
        RECURSIVE Numerator(_)
        Numerator(i) ==
            IF i = 0 THEN Whole(0)
            ELSE Plus(Numerator(i - 1),
                      Times(Minus(Whole(i - 1), x_mean),
                            Minus(Whole(mnf_values[i]), y_mean)))
        RECURSIVE Denominator(_)
        Denominator(i) ==
            IF i = 0 THEN Whole(0)
            ELSE Plus(Denominator(i - 1),
                      Times(Minus(Whole(i - 1), x_mean),
                            Minus(Whole(i - 1), x_mean)))
    IN  IF Denominator(n).n # 0
        THEN Over(Numerator(n), Denominator(n))
        ELSE Whole(0)

\* lines 109-114
TrendOf(slope) ==
    IF Less(Rat(1, 100), slope) THEN "increasing"
    ELSE IF Less(slope, Rat(-1, 100)) THEN "decreasing"
    ELSE "stable"

\* lines 117-118
LeakageRate(average_mnf, pipe_length_km) ==
    IF pipe_length_km > 0
    THEN Over(Times(average_mnf, Whole(24)), Whole(pipe_length_km))
    ELSE Whole(0)

\* line 122
Uarl(pipe_length_km, service_connections, system_pressure) ==
    Times(Plus(Whole(18 * pipe_length_km), Rat(8 * service_connections, 10)),
          Whole(system_pressure))

\* line 123
Carl(average_mnf) == Times(average_mnf, Whole(24 * 1000))

\* line 125
Ili(carl_lpd, uarl_lpd) ==
    IF Less(Whole(0), uarl_lpd) THEN Over(carl_lpd, uarl_lpd) ELSE Infinity

\* lines 167-175
IliScore(ili) ==
    IF Less(ili, Whole(2)) THEN Whole(10)
    ELSE IF Less(ili, Whole(4)) THEN Whole(30)
    ELSE IF Less(ili, Whole(8)) THEN Whole(60)
    ELSE IF IsInfinite(ili) THEN Whole(100)
    ELSE RatMin(Whole(100),
                Plus(Whole(60), Times(Minus(ili, Whole(8)), Whole(5))))

\* lines 177-184
TrendScore(trend, slope) ==
    IF trend = "decreasing" THEN Whole(10)
    ELSE IF trend = "stable" THEN Whole(30)
    ELSE RatMin(Whole(100),
                Plus(Whole(50), Times(RatAbs(slope), Whole(500))))

\* lines 186-195
RateScore(leakage_rate) ==
    IF Less(leakage_rate, Whole(10)) THEN Whole(20)
    ELSE IF Less(leakage_rate, Whole(20)) THEN Whole(40)
    ELSE IF Less(leakage_rate, Whole(30)) THEN Whole(60)
    ELSE RatMin(Whole(100),
                Plus(Whole(60),
                     Times(Minus(leakage_rate, Whole(30)), Whole(2))))

\* line 198
WeightedRateFirst(ili_score, trend_score, rate_score) ==
    Plus(Plus(Times(ili_score, Rat(35, 100)), Times(trend_score, Rat(25, 100))),
         Times(rate_score, Rat(40, 100)))

Weighted(ili_score, trend_score, rate_score) ==
    Plus(Plus(Times(ili_score, Rat(40, 100)), Times(trend_score, Rat(25, 100))),
         Times(rate_score, Rat(35, 100)))

\* lines 153-198
calculate_risk_score(ili, trend, slope, leakage_rate) ==
    Weighted(IliScore(ili), TrendScore(trend, slope), RateScore(leakage_rate))

\* lines 201-210
determine_priority_by_score_alone(risk_score, trend) ==
    IF AtLeast(risk_score, Whole(75)) THEN "critical"
    ELSE IF AtLeast(risk_score, Whole(50)) THEN "high"
    ELSE IF AtLeast(risk_score, Whole(30)) THEN "medium"
    ELSE "low"

determine_priority(risk_score, trend) ==
    IF AtLeast(risk_score, Whole(75))
       \/ (AtLeast(risk_score, Whole(60)) /\ trend = "increasing")
    THEN "critical"
    ELSE IF AtLeast(risk_score, Whole(50)) THEN "high"
    ELSE IF AtLeast(risk_score, Whole(30)) THEN "medium"
    ELSE "low"

\* one recommended action: its text, and the number formatted into it
RecommendedAction(text, number) == [text |-> text, number |-> number]

\* lines 213-254; the leakage-rate message formats the rate with one decimal
generate_recommendations(ili, trend, leakage_rate, risk_score) ==
    LET urgent   == IF AtLeast(risk_score, Whole(75))
                    THEN << RecommendedAction("URGENT: Schedule immediate leak detection survey", 0) >>
                    ELSE << >>
        by_ili   == IF Less(Whole(8), ili)
                    THEN << RecommendedAction("High ILI indicates significant unreported breaks", 0) >>
                    ELSE IF Less(Whole(4), ili)
                    THEN << RecommendedAction("Moderate ILI", 0) >>
                    ELSE << >>
        by_trend == IF trend = "increasing"
                    THEN << RecommendedAction("Increasing MNF trend suggests developing leaks", 0) >>
                    ELSE << >>
        by_rate  == IF Less(Whole(30), leakage_rate)
                    THEN << RecommendedAction("Leakage rate exceeds benchmark",
                                              RoundTo(leakage_rate, 10)) >>
                    ELSE << >>
        all      == urgent \o by_ili \o by_trend \o by_rate
    IN  IF all = << >>
        THEN << RecommendedAction("Continue routine monitoring", 0) >>
        ELSE all

\* a float field rounded to units^-1: its count of units, or infinity
RoundedFloat(x, units) ==
    IF IsInfinite(x) THEN [inf |-> TRUE, value |-> 0]
    ELSE [inf |-> FALSE, value |-> RoundTo(x, units)]

\* lines 95-136: the working values of analyze_leak_indicators on request req
LeakWorkingValues(req) ==
    LET average_mnf  == AverageMnf(req.mnf_values)
        slope        == TrendSlope(req.mnf_values)
        trend        == TrendOf(slope)
        leakage_rate == LeakageRate(average_mnf, req.pipe_length_km)
        uarl_lpd     == Uarl(req.pipe_length_km, req.service_connections,
                             req.system_pressure)
        carl_lpd     == Carl(average_mnf)
        ili          == Ili(carl_lpd, uarl_lpd)
        risk_score   == RatMin(Whole(100),
                               calculate_risk_score(ili, trend, slope,
                                                    leakage_rate))
    IN  [ average_mnf     |-> average_mnf,
          slope           |-> slope,
          trend           |-> trend,
          leakage_rate    |-> leakage_rate,
          uarl_lpd        |-> uarl_lpd,
          carl_lpd        |-> carl_lpd,
          ili             |-> ili,
          risk_score      |-> risk_score,
          priority        |-> determine_priority(risk_score, trend),
          recommendations |-> generate_recommendations(ili, trend, leakage_rate,
                                                       risk_score) ]

\* lines 138-150, at clock reading now (analysis_timestamp = datetime.now())
LeakAnalysis(req, w, now) ==
    [ zone_id                      |-> req.zone_id,
      analysis_timestamp           |-> now,
      average_mnf_m3h              |-> RoundTo(w.average_mnf, 1000),
      mnf_trend                    |-> w.trend,
      mnf_trend_slope              |-> RoundTo(w.slope, 10000),
      pipe_length_km               |-> req.pipe_length_km,
      service_connections          |-> req.service_connections,
      leakage_rate_m3_km_day       |-> RoundTo(w.leakage_rate, 100),
      infrastructure_leakage_index |-> RoundedFloat(w.ili, 100),
      priority                     |-> w.priority,
      risk_score                   |-> RoundTo(w.risk_score, 10),
      recommended_actions          |-> w.recommendations ]

\* the frame of a call that has not started
IdleLeakFrame ==
    [ pc      |-> "idle",
      request |-> NoValue,
      error   |-> "none",
      working |-> NoValue,
      result  |-> NoValue ]

InitLeak(ids) == leak_call = [c \in ids |-> IdleLeakFrame]

\* POST /leak-indicators: LeakIndicatorRequest(...) is constructed from the
\* request and raises a validation error on a violated constraint
ValidateLeakRequestOf(c, requests) ==
    /\ leak_call[c].pc = "idle"
    /\ \E req \in requests :
          leak_call' = [leak_call EXCEPT ![c] =
             IF LeakRequestValid(req)
             THEN [IdleLeakFrame EXCEPT !.pc = "analysing", !.request = req]
             ELSE [IdleLeakFrame EXCEPT !.pc = "rejected",
                                        !.request = req,
                                        !.error = "ValidationError"]]
    /\ UNCHANGED leak_others

ValidateLeakRequest(c) == ValidateLeakRequestOf(c, LeakRequests)

\* analyze_leak_indicators, lines 95-136
AnalyzeLeakIndicators(c) ==
    /\ leak_call[c].pc = "analysing"
    /\ leak_call' = [leak_call EXCEPT ![c] =
          [leak_call[c] EXCEPT !.working = LeakWorkingValues(leak_call[c].request),
                               !.pc = "constructing"]]
    /\ UNCHANGED leak_others

\* lines 138-150: the LeakAnalysis is built and returned
ConstructLeakAnalysis(c) ==
    /\ leak_call[c].pc = "constructing"
    /\ \E now \in 0..MaxClock :
          leak_call' = [leak_call EXCEPT ![c] =
             [leak_call[c] EXCEPT
                 !.result = LeakAnalysis(leak_call[c].request,
                                         leak_call[c].working, now),
                 !.pc = "done"]]
    /\ UNCHANGED leak_others

(***************************************************************************)
(* The bearer-token guard: src/api/auth.py, src/api/main.py and the        *)
(* routers of src/api/routers                                              *)
(***************************************************************************)
\* the routes main.py mounts under settings.api_prefix; every one of them
\* declares the parameter current_user: CurrentUser
NrwEndpoints ==
    { "POST /api/v1/nrw/water-balance", "POST /api/v1/nrw/mnf-analysis",
      "POST /api/v1/nrw/leak-indicators", "GET /api/v1/nrw/summary" }

EnergyEndpoints ==
    { "POST /api/v1/energy/optimize-schedule",
      "POST /api/v1/energy/efficiency-analysis",
      "POST /api/v1/energy/cost-analysis", "GET /api/v1/energy/summary",
      "GET /api/v1/energy/pumps" }

ComplianceEndpoints ==
    { "GET /api/v1/compliance/obligations",
      "POST /api/v1/compliance/obligations",
      "PATCH /api/v1/compliance/obligations/{obligation_id}",
      "POST /api/v1/compliance/reports/generate",
      "GET /api/v1/compliance/reports/types",
      "POST /api/v1/compliance/risk-assessment",
      "GET /api/v1/compliance/summary", "GET /api/v1/compliance/calendar" }

DataEndpoints ==
    { "POST /api/v1/data/manual-reading",
      "POST /api/v1/data/manual-readings/batch",
      "POST /api/v1/data/upload/csv", "GET /api/v1/data/sources",
      "POST /api/v1/data/sources", "GET /api/v1/data/status",
      "GET /api/v1/data/history" }

ApiEndpoints ==
    NrwEndpoints \cup EnergyEndpoints \cup ComplianceEndpoints \cup DataEndpoints

\* main.py lines 59-78: the routes without the dependency
PublicEndpoints == { "GET /health", "GET /" }

\* the Authorization header of a request: absent (HTTPBearer(auto_error=False)
\* then yields None), or a bearer token.  A token is signed with the
\* application's key or with another one, and carries a type and an expiry.
NoCredentials ==
    [ scheme |-> "none", key |-> "none", type |-> "none", exp |-> 0 ]

BearerTokens ==
    [ scheme : {"bearer"},
      key    : {"jwt_secret_key", "another key"},
      type   : {"access", "refresh"},
      exp    : 0..MaxClock ]

Credentials == {NoCredentials} \cup BearerTokens

\* decode_token, lines 82-94: jwt.decode raises JWTError on a signature made
\* with another key and on an expiry before the clock reading now
TokenDecodes(token, now) ==
    /\ token.key = "jwt_secret_key"
    /\ token.exp >= now

\* lines 110-115
AnyTokenType(type) == TRUE

AccessTokenType(type) == type = "access"

\* get_current_user, lines 97-117: the status it raises, or 0 when it returns
\* the subject of the token
GuardStatus(credentials, now) ==
    IF credentials.scheme # "bearer" THEN 401
    ELSE IF ~TokenDecodes(credentials, now) THEN 401
    ELSE IF ~AccessTokenType(credentials.type) THEN 401
    ELSE 0

GuardDetail(credentials, now) ==
    IF credentials.scheme # "bearer" THEN "Authentication required"
    ELSE IF ~TokenDecodes(credentials, now) THEN "Invalid or expired token"
    ELSE IF ~AccessTokenType(credentials.type) THEN "Invalid token type"
    ELSE "none"

IdleHttp ==
    [ pc           |-> "idle",
      endpoint     |-> "none",
      credentials  |-> NoCredentials,
      body_valid   |-> FALSE,
      checked_at   |-> 0,
      status       |-> 0,
      detail       |-> "none",
      endpoint_ran |-> FALSE ]

InitHttp == http = IdleHttp

\* a request arrives and is routed
ReceiveRequest ==
    /\ http.pc = "idle"
    /\ \E endpoint \in ApiEndpoints \cup PublicEndpoints,
          credentials \in Credentials, body_valid \in BOOLEAN :
          http' = [IdleHttp EXCEPT
                      !.pc = IF endpoint \in ApiEndpoints
                             THEN "guard" ELSE "endpoint",
                      !.endpoint = endpoint,
                      !.credentials = credentials,
                      !.body_valid = body_valid]
    /\ UNCHANGED http_others

\* the dependency get_current_user of a route under the API prefix
GetCurrentUser ==
    /\ http.pc = "guard"
    /\ \E now \in 0..MaxClock :
          http' = IF GuardStatus(http.credentials, now) # 0
                  THEN [http EXCEPT
                           !.pc = "responded",
                           !.checked_at = now,
                           !.status = GuardStatus(http.credentials, now),
                           !.detail = GuardDetail(http.credentials, now)]
                  ELSE [http EXCEPT !.pc = "body", !.checked_at = now]
    /\ UNCHANGED http_others

\* the request model of the route is validated once the dependency returned
ValidateBody ==
    /\ http.pc = "body"
    /\ http' = IF http.body_valid
               THEN [http EXCEPT !.pc = "endpoint"]
               ELSE [http EXCEPT !.pc = "responded", !.status = 422,
                                 !.detail = "validation error"]
    /\ UNCHANGED http_others

\* the endpoint function runs (and calls its engine) and the response is sent
RunEndpoint ==
    /\ http.pc = "endpoint"
    /\ http' = [http EXCEPT !.pc = "responded", !.status = 200,
                            !.endpoint_ran = TRUE]
    /\ UNCHANGED http_others

(***************************************************************************)
(* Pump efficiency: src/src/energy/efficiency_analysis.py                  *)
(*                                                                         *)
(* The engine multiplies by 9.81 and compares with 0.85, 0.95, 0.80 and    *)
(* 0.70, none of which is a binary fraction, so its arithmetic is modelled *)
(* as floating-point arithmetic: a float is [m, e], the number m * 2^e     *)
(* with |m| < 2^Precision, and every operation returns the float nearest   *)
(* to the exact result, ties to the even mantissa (the IEEE 754 rule of    *)
(* Python's floats, which carry 53 bits).  As with 53 bits, the float of   *)
(* 0.85 lies below 0.85 at Precision bits.  A field produced by            *)
(* round(x, k) is an integer count of 10^-k.                               *)
(***************************************************************************)
RECURSIVE Pow2(_)
Pow2(k) == IF k = 0 THEN 1 ELSE 2 * Pow2(k - 1)

\* the one representation of the number m * 2^e: m odd, or zero
RECURSIVE Canonical(_, _)
Canonical(m, e) ==
    IF m = 0 THEN [m |-> 0, e |-> 0]
    ELSE IF m % 2 = 0 THEN Canonical(m \div 2, e + 1)
    ELSE [m |-> m, e |-> e]

\* the float nearest to (n / d) * 2^e, for d > 0
RECURSIVE FloatOf(_, _, _)
FloatOf(n, d, e) ==
    IF n = 0 THEN Canonical(0, 0)
    ELSE IF Abs(n) >= Pow2(Precision) * d THEN FloatOf(n, 2 * d, e + 1)
    ELSE IF Abs(n) < Pow2(Precision - 1) * d THEN FloatOf(2 * n, d, e - 1)
    ELSE Canonical(RoundHalfEven(n, d), e)

\* the float of the decimal literal n / d, and of the integer k
Literal(n, d) == FloatOf(n, d, 0)

FloatOfInt(k) == FloatOf(k, 1, 0)

\* x * y, x / y (y # 0) and x - y of floats
FMul(x, y) == FloatOf(x.m * y.m, 1, x.e + y.e)

FDiv(x, y) ==
    IF y.m > 0 THEN FloatOf(x.m, y.m, x.e - y.e)
    ELSE FloatOf(-x.m, -y.m, x.e - y.e)

FSub(x, y) ==
    LET e == Min(x.e, y.e)
    IN  FloatOf(x.m * Pow2(x.e - e) - y.m * Pow2(y.e - e), 1, e)

\* x < y and x >= y of floats
FLess(x, y) ==
    LET e == Min(x.e, y.e)
    IN  x.m * Pow2(x.e - e) < y.m * Pow2(y.e - e)

FAtLeast(x, y) == ~FLess(x, y)

\* round(x, k) of a float, as a count of units = 10^k -ths
RoundFloat(x, units) ==
    IF x.e >= 0 THEN units * x.m * Pow2(x.e)
    ELSE RoundHalfEven(units * x.m, Pow2(-x.e))

\* lines 19-20
WATER_DENSITY == 1000

GRAVITY == Literal(981, 100)

\* PumpEfficiencyInput, lines 23-39: the Field constraints gt=0, ge=0, le=1
EfficiencyInputValid(input_data) ==
    /\ input_data.flow_rate_m3h.m > 0
    /\ input_data.discharge_pressure_m.m > 0
    /\ input_data.suction_pressure_m.m >= 0
    /\ input_data.power_consumption_kw.m > 0
    /\ input_data.rated_efficiency.m > 0
    /\ ~FLess(FloatOfInt(1), input_data.rated_efficiency)

\* lines 138-147: the rating of an efficiency ratio
EfficiencyRating(efficiency_ratio) ==
    IF FAtLeast(efficiency_ratio, Literal(95, 100)) THEN "excellent"
    ELSE IF FAtLeast(efficiency_ratio, Literal(85, 100)) THEN "good"
    ELSE IF FAtLeast(efficiency_ratio, Literal(70, 100)) THEN "fair"
    ELSE "poor"

\* line 150: efficiency_ratio < 0.80 or degradation > 15
MaintenanceNeeded(efficiency_ratio, degradation) ==
    \/ FLess(efficiency_ratio, Literal(80, 100))
    \/ FLess(FloatOfInt(15), degradation)

\* lines 177-226; the message on the specific energy stands without the
\* number the code formats into it
generate_efficiency_recommendations(actual_efficiency, rated_efficiency, efficiency_ratio, degradation, specific_energy) ==
    LET by_ratio  == IF FLess(efficiency_ratio, Literal(70, 100))
                     THEN << "CRITICAL: Efficiency below 70% of rated" >>
                     ELSE IF FLess(efficiency_ratio, Literal(80, 100))
                     THEN << "Significant efficiency loss detected" >>
                     ELSE IF FLess(efficiency_ratio, Literal(90, 100))
                     THEN << "Minor efficiency degradation" >>
                     ELSE << >>
        by_wear   == IF FLess(FloatOfInt(20), degradation)
                     THEN << "Check for worn impeller" >>
                     ELSE << >>
        by_energy == IF FLess(Literal(5, 10), specific_energy)
                     THEN << "Specific energy is high" >>
                     ELSE << >>
        by_actual == IF FLess(actual_efficiency, Literal(5, 10))
                     THEN << "Operating efficiency below 50%" >>
                     ELSE << >>
        recommendations == by_ratio \o by_wear \o by_energy \o by_actual
    IN  IF recommendations = << >>
        THEN << "Pump operating within acceptable parameters" >>
        ELSE recommendations

\* analyze_pump_efficiency, lines 116-174; the report is built at clock
\* reading now (analysis_timestamp, default_factory=datetime.now)
analyze_pump_efficiency(input_data, now) ==
    LET total_head         == FSub(input_data.discharge_pressure_m, input_data.suction_pressure_m)
        flow_rate_m3s      == FDiv(input_data.flow_rate_m3h, FloatOfInt(3600))
        hydraulic_power_w  == FMul(FMul(FMul(FloatOfInt(WATER_DENSITY), GRAVITY), flow_rate_m3s), total_head)
        hydraulic_power_kw == FDiv(hydraulic_power_w, FloatOfInt(1000))
        wire_to_water      == FDiv(hydraulic_power_kw, input_data.power_consumption_kw)
        specific_energy    == FDiv(input_data.power_consumption_kw, input_data.flow_rate_m3h)
        degradation        == FMul(FDiv(FSub(input_data.rated_efficiency, wire_to_water), input_data.rated_efficiency), FloatOfInt(100))
        efficiency_ratio   == FDiv(wire_to_water, input_data.rated_efficiency)
    IN  [ pump_id                  |-> input_data.pump_id,
          analysis_timestamp       |-> now,
          flow_rate_m3h            |-> input_data.flow_rate_m3h,
          total_head_m             |-> RoundFloat(total_head, 100),
          power_consumption_kw     |-> input_data.power_consumption_kw,
          hydraulic_power_kw       |-> RoundFloat(hydraulic_power_kw, 100),
          wire_to_water_efficiency |-> RoundFloat(wire_to_water, 1000),
          rated_efficiency         |-> input_data.rated_efficiency,
          specific_energy_kwh_m3   |-> RoundFloat(specific_energy, 1000),
          efficiency_rating        |-> EfficiencyRating(efficiency_ratio),
          degradation_percentage   |-> RoundFloat(degradation, 10),
          maintenance_recommended  |-> MaintenanceNeeded(efficiency_ratio, degradation),
          recommendations          |-> generate_efficiency_recommendations(wire_to_water, input_data.rated_efficiency, efficiency_ratio, degradation, specific_energy) ]

\* the requests of the efficiency endpoint: flow, heads and power are
\* integers (a flow or a power of 0 is refused), the rated efficiency is 0,
\* 0.5, 0.75, 1 or 1.25 (0 and 1.25 are refused)
EfficiencyInputs ==
    [ pump_id              : {"PUMP-001"},
      flow_rate_m3h        : {FloatOfInt(k) : k \in {0, 36, 360}},
      discharge_pressure_m : {FloatOfInt(k) : k \in 11..(11 + MaxHead)},
      suction_pressure_m   : {FloatOfInt(k) : k \in {0, 1}},
      power_consumption_kw : {FloatOfInt(k) : k \in {0} \cup 15..(15 + MaxPower)},
      rated_efficiency     : {FloatOf(k, 4, 0) : k \in {0, 2, 3, 4, 5}} ]

IdleEfficiencyFrame == [pc |-> "idle", input_data |-> NoValue, report |-> NoValue, error |-> "none"]

InitEfficiency(ids) == eff_call = [c \in ids |-> IdleEfficiencyFrame]

\* PumpEfficiencyInput(...) is constructed from the request and raises a
\* validation error on a violated constraint
ValidateEfficiencyInput(c) ==
    /\ eff_call[c].pc = "idle"
    /\ \E input_data \in EfficiencyInputs :
          eff_call' = [eff_call EXCEPT ![c] =
             IF EfficiencyInputValid(input_data)
             THEN [IdleEfficiencyFrame EXCEPT !.pc = "analysing", !.input_data = input_data]
             ELSE [IdleEfficiencyFrame EXCEPT !.pc = "rejected",
                                              !.input_data = input_data,
                                              !.error = "ValidationError"]]
    /\ UNCHANGED eff_others

\* analyze_pump_efficiency runs and returns its report
AnalyzePumpEfficiency(c) ==
    /\ eff_call[c].pc = "analysing"
    /\ \E now \in 0..MaxClock :
          eff_call' = [eff_call EXCEPT ![c] =
             [eff_call[c] EXCEPT !.report = analyze_pump_efficiency(eff_call[c].input_data, now),
                                 !.pc = "done"]]
    /\ UNCHANGED eff_others

(***************************************************************************)
(* Obligation tracking: src/src/compliance/obligation_tracking.py          *)
(*                                                                         *)
(* Dates are day ordinals of one year without a leap day; datetimes are    *)
(* kept to their day.  An optional argument or field is a record: Some(v), *)
(* or None with a value of the same type that is never read.               *)
(***************************************************************************)
Some(v) == [given |-> TRUE, value |-> v]

NoneOf(v) == [given |-> FALSE, value |-> v]

\* class ObligationStatus, lines 16-23
PENDING == "pending"

IN_PROGRESS == "in_progress"

COMPLETED == "completed"

OVERDUE == "overdue"

WAIVED == "waived"

ObligationStatus == {PENDING, IN_PROGRESS, COMPLETED, OVERDUE, WAIVED}

\* date(today.year, 7, 1), line 210: the ordinal of July 1
JulyFirst == 182

\* Obligation(...), lines 37-74, with the defaults of completion_date, notes,
\* created_at and updated_at
Obligation(id, title, regulation, category, frequency, due_date, status, responsible_party, now) ==
    [ id                |-> id,
      title             |-> title,
      regulation        |-> regulation,
      category          |-> category,
      frequency         |-> frequency,
      due_date          |-> due_date,
      status            |-> status,
      completion_date   |-> NoneOf(0),
      notes             |-> "",
      responsible_party |-> responsible_party,
      created_at        |-> now,
      updated_at        |-> now ]

\* the keys of the dictionary of lines 169-225, in insertion order
SampleIds == << "OBL-001", "OBL-002", "OBL-003", "OBL-004", "OBL-005" >>

\* _get_sample_obligations, lines 165-225, called on day day
get_sample_obligations(day) ==
    [ id \in {SampleIds[i] : i \in DOMAIN SampleIds} |->
        CASE id = "OBL-001" ->
               Obligation(id, "Monthly Coliform Sampling", "EPA SDWA 40 CFR 141.21", "monitoring", "Monthly", day + 15, PENDING, "Operator", day)
          [] id = "OBL-002" ->
               Obligation(id, "Monthly Operating Report", "State Regulation", "reporting", "Monthly", day + 28, PENDING, "Operator", day)
          [] id = "OBL-003" ->
               Obligation(id, "Quarterly DBP Sampling", "EPA SDWA 40 CFR 141.132", "monitoring", "Quarterly", day + 45, PENDING, "Operator", day)
          [] id = "OBL-004" ->
               Obligation(id, "Annual Consumer Confidence Report", "EPA SDWA 40 CFR 141.151", "reporting", "Annual", JulyFirst, PENDING, "Manager", day)
          [] id = "OBL-005" ->
               Obligation(id, "Chlorine Residual Monitoring", "EPA SDWA 40 CFR 141.72", "monitoring", "Daily", day, IN_PROGRESS, "Operator", day) ]

\* list(sample_obligations.values()), line 113
ValuesOf(obligations) == [i \in DOMAIN SampleIds |-> obligations[SampleIds[i]]]

\* results.sort(key=lambda o: o.due_date), line 126: a stable sort
RECURSIVE SortByDueDate(_)
SortByDueDate(results) ==
    IF results = << >> THEN << >>
    ELSE LET sorted == SortByDueDate(SubSeq(results, 1, Len(results) - 1))
             o      == results[Len(results)]
             k      == Cardinality({i \in DOMAIN sorted : sorted[i].due_date <= o.due_date})
         IN  SubSeq(sorted, 1, k) \o << o >> \o SubSeq(sorted, k + 1, Len(sorted))

\* the truth value Python gives an optional string and an optional integer
\* (lines 115, 118, 121: if status, if category, if due_within_days)
TruthyString(arg) == arg.given /\ arg.value # ""

TruthyInt(arg) == arg.given /\ arg.value # 0

\* get_obligations, lines 94-128, called on day day
get_obligations(status, category, due_within_days, day) ==
    LET sample_obligations == get_sample_obligations(day)
        all      == ValuesOf(sample_obligations)
        HasStatus(o)   == o.status = status.value
        HasCategory(o) == o.category = category.value
        DueSoon(o)     == o.due_date <= day + due_within_days.value
        by_status   == IF TruthyString(status) THEN SelectSeq(all, HasStatus) ELSE all
        by_category == IF TruthyString(category) THEN SelectSeq(by_status, HasCategory) ELSE by_status
        by_due      == IF TruthyInt(due_within_days) THEN SelectSeq(by_category, DueSoon) ELSE by_category
    IN  SortByDueDate(by_due)

\* the variant of update_obligation_status that updates without looking the
\* id up
update_obligation_status_unchecked(obligation_id, status, completion_date, notes, day) ==
    LET obligations == get_sample_obligations(day)
        known       == IF obligation_id \in DOMAIN obligations THEN obligation_id ELSE SampleIds[1]
        obligation  == [obligations[known] EXCEPT
                           !.status = status,
                           !.notes = notes,
                           !.updated_at = day,
                           !.completion_date =
                               IF status = COMPLETED
                               THEN (IF completion_date.given THEN completion_date ELSE Some(day))
                               ELSE @]
    IN  [ obligations |-> [obligations EXCEPT ![known] = obligation],
          returned    |-> obligation,
          error       |-> "none" ]

\* update_obligation_status, lines 131-162, called on day day: the dictionary
\* it worked on, the obligation it returned and the error it raised
update_obligation_status(obligation_id, status, completion_date, notes, day) ==
    LET obligations == get_sample_obligations(day)
    IN  IF obligation_id \notin DOMAIN obligations
        THEN [ obligations |-> obligations,
               returned    |-> NoValue,
               error       |-> "ValueError: Obligation not found" ]
        ELSE LET obligation == [obligations[obligation_id] EXCEPT
                                   !.status = status,
                                   !.notes = notes,
                                   !.updated_at = day,
                                   !.completion_date =
                                       IF status = COMPLETED
                                       THEN (IF completion_date.given THEN completion_date ELSE Some(day))
                                       ELSE @]
             IN  [ obligations |-> [obligations EXCEPT ![obligation_id] = obligation],
                   returned    |-> obligation,
                   error       |-> "none" ]

\* the days on which calls are made: the day before July 1 falls on the due
\* date of OBL-001, that day, and the day after July 1
FirstCallDay == JulyFirst - 16

CallDays == {FirstCallDay, JulyFirst - 15, JulyFirst + 1}

\* the arguments of the calls
GetArguments ==
    [ status          : {NoneOf("")} \cup {Some(s) : s \in {PENDING, COMPLETED}},
      category        : {NoneOf(""), Some(""), Some("monitoring")},
      due_within_days : {NoneOf(0)} \cup {Some(n) : n \in {0, 15}} ]

UpdateArguments ==
    [ obligation_id   : {"OBL-001", "OBL-005", "NONEXISTENT-ID"},
      status          : ObligationStatus,
      completion_date : {NoneOf(0), Some(JulyFirst)},
      notes           : {"", "Completed via test"} ]

\* the frame of a worker: the call it is in (op, args), and what its calls
\* left: the dictionary and the result of the latest update_obligation_status
\* (obligations, updated, error) and the list of the get_obligations call
\* made after it
IdleObligationFrame ==
    [ pc          |-> "idle",
      op          |-> "none",
      get_args    |-> NoValue,
      update_args |-> NoValue,
      obligations |-> NoValue,
      updated     |-> NoValue,
      listed      |-> << >>,
      error       |-> "none" ]

InitObligations(ids) ==
    /\ today = FirstCallDay
    /\ obligations_db = [id \in {} |-> NoValue]
    /\ ob_call = [c \in ids |-> IdleObligationFrame]

\* midnight passes, once or several times
DayPasses ==
    /\ \E day \in CallDays : day > today /\ today' = day
    /\ UNCHANGED <<obligations_db, ob_call>>
    /\ UNCHANGED ob_others

\* GET /obligations: list_obligations calls get_obligations
CallGetObligations(c) ==
    /\ ob_call[c].pc \in {"idle", "returned", "raised"}
    /\ \E args \in GetArguments :
          ob_call' = [ob_call EXCEPT ![c] =
             [ob_call[c] EXCEPT !.pc = "get", !.op = "get", !.get_args = args]]
    /\ UNCHANGED <<today, obligations_db>>
    /\ UNCHANGED ob_others

GetObligations(c) ==
    /\ ob_call[c].pc = "get"
    /\ LET args == ob_call[c].get_args
       IN  ob_call' = [ob_call EXCEPT ![c] =
              [ob_call[c] EXCEPT
                  !.listed = get_obligations(args.status, args.category, args.due_within_days, today),
                  !.pc = "returned"]]
    /\ UNCHANGED <<today, obligations_db>>
    /\ UNCHANGED ob_others

\* PATCH /obligations/{obligation_id}: update_obligation calls
\* update_obligation_status
CallUpdateObligationStatus(c) ==
    /\ ob_call[c].pc \in {"idle", "returned", "raised"}
    /\ \E args \in UpdateArguments :
          ob_call' = [ob_call EXCEPT ![c] =
             [ob_call[c] EXCEPT !.pc = "update", !.op = "update", !.update_args = args,
                                !.get_args = NoValue, !.listed = << >>]]
    /\ UNCHANGED <<today, obligations_db>>
    /\ UNCHANGED ob_others

UpdateObligationStatus(c) ==
    /\ ob_call[c].pc = "update"
    /\ LET args    == ob_call[c].update_args
           outcome == update_obligation_status(args.obligation_id, args.status, args.completion_date, args.notes, today)
       IN  ob_call' = [ob_call EXCEPT ![c] =
              [ob_call[c] EXCEPT
                  !.obligations = outcome.obligations,
                  !.updated = outcome.returned,
                  !.error = outcome.error,
                  !.pc = IF outcome.error = "none" THEN "returned" ELSE "raised"]]
    /\ UNCHANGED <<today, obligations_db>>
    /\ UNCHANGED ob_others

(***************************************************************************)
(* Specifications                                                          *)
(***************************************************************************)
\* the water-balance endpoint and the WaterBalance model
Init ==
    /\ InitWaterBalance
    /\ InitPump({1})
    /\ InitMnf({1})
    /\ InitLeak({1})
    /\ InitHttp
    /\ InitEfficiency({1})
    /\ InitObligations({1})

NextWaterBalance ==
    \/ ValidateWaterBalanceInput
    \/ CalculateWaterBalance
    \/ ConstructWaterBalance

SpecWaterBalance == Init /\ [][NextWaterBalance]_vars

\* one optimize_pump_schedule call
NextPump ==
    \/ \E c \in DOMAIN call : StartOptimize(c)
    \/ \E c \in DOMAIN call : Pass1Iteration(c)
    \/ \E c \in DOMAIN call : ComputeBaseline(c)
    \/ \E c \in DOMAIN call : Pass2Iteration(c)
    \/ \E c \in DOMAIN call : ReturnSchedule(c)

SpecPump == Init /\ [][NextPump]_vars

\* a call that has started runs on: the function is synchronous code, each
\* statement is followed by the next
\* the valid requests of a tank of capacity 3 with minimum level 1 and a pump
\* of flow 1, by current level, demand forecast (hours without demand
\* included) and rates
RunningRequests ==
    [ pump_id               : {"PUMP-001"},
      tank_capacity_m3      : {3},
      tank_current_level_m3 : {0, 3},
      tank_min_level_m3     : {1},
      pump_flow_rate_m3h    : {1},
      pump_power_kw         : {3},
      demand_forecast_m3h   : Forecasts({0, 1, 2}),
      electricity_rates     : {Forecast(head, 1) : head \in [1..HeadHours -> {1, 2}]},
      optimization_date     : {0} ]

NextPumpRuns ==
    \/ \E c \in DOMAIN call : StartOptimizeOf(c, RunningRequests)
    \/ \E c \in DOMAIN call : Pass1Iteration(c)
    \/ \E c \in DOMAIN call : ComputeBaseline(c)
    \/ \E c \in DOMAIN call : Pass2Iteration(c)
    \/ \E c \in DOMAIN call : ReturnSchedule(c)

SpecPumpRuns == Init /\ [][NextPumpRuns]_vars /\ WF_vars(NextPumpRuns)

\* one analyze_minimum_night_flow call
NextMnf ==
    \/ \E c \in DOMAIN mnf_call : CheckReadings(c)
    \/ \E c \in DOMAIN mnf_call : AnalyzeMinimumNightFlow(c)

SpecMnf == Init /\ [][NextMnf]_vars

\* one request to the leak-indicators endpoint
NextLeak ==
    \/ \E c \in DOMAIN leak_call : ValidateLeakRequest(c)
    \/ \E c \in DOMAIN leak_call : AnalyzeLeakIndicators(c)
    \/ \E c \in DOMAIN leak_call : ConstructLeakAnalysis(c)

SpecLeak == Init /\ [][NextLeak]_vars

\* one HTTP request to the application
NextApi ==
    \/ ReceiveRequest
    \/ GetCurrentUser
    \/ ValidateBody
    \/ RunEndpoint

SpecApi == Init /\ [][NextApi]_vars

\* one analyze_pump_efficiency call
NextEfficiency ==
    \/ \E c \in DOMAIN eff_call : ValidateEfficiencyInput(c)
    \/ \E c \in DOMAIN eff_call : AnalyzePumpEfficiency(c)

SpecEfficiency == Init /\ [][NextEfficiency]_vars

\* one worker serving obligation-tracking calls one after the other
NextObligations ==
    \/ DayPasses
    \/ \E c \in DOMAIN ob_call : CallGetObligations(c)
    \/ \E c \in DOMAIN ob_call : GetObligations(c)
    \/ \E c \in DOMAIN ob_call : CallUpdateObligationStatus(c)
    \/ \E c \in DOMAIN ob_call : UpdateObligationStatus(c)

SpecObligations == Init /\ [][NextObligations]_vars

\* Two workers of the transport layer, each serving one engine call; their
\* steps interleave in any order.  The requests are drawn from small sets.
TwoCallScheduleRequests ==
    { [ pump_id               |-> "PUMP-001",
        tank_capacity_m3      |-> 3,
        tank_current_level_m3 |-> 0,
        tank_min_level_m3     |-> 1,
        pump_flow_rate_m3h    |-> 2,
        pump_power_kw         |-> 3,
        demand_forecast_m3h   |-> Forecast(<< >>, demand),
        electricity_rates     |-> Forecast(<<2>>, 1),
        optimization_date     |-> 0 ] : demand \in {1, 2} }

TwoCallMnfRequests ==
    { [ hourly_flows        |-> FlowSeries(<<FlowScale, FlowScale + 1, low,
                                             (3 * FlowScale) \div 2>>,
                                           2 * FlowScale, << >>, Hours),
        service_connections |-> 200,
        average_pressure    |-> 40 ] : low \in {0, FlowScale} }

TwoCallLeakRequests ==
    { [ zone_id             |-> "ZONE-A",
        mnf_values          |-> MnfReadings(5, 0, late, MinReadings),
        system_pressure     |-> 40,
        pipe_length_km      |-> 10,
        service_connections |-> 500 ] : late \in {0, 1} }

InitTwoCalls ==
    /\ InitWaterBalance
    /\ InitPump({1, 2})
    /\ InitMnf({1, 2})
    /\ InitLeak({1, 2})
    /\ InitHttp
    /\ InitEfficiency({1, 2})
    /\ InitObligations({1, 2})

\* worker c is serving a call
Busy(c) ==
    \/ call[c].pc # "idle"
    \/ mnf_call[c].pc # "idle"
    \/ leak_call[c].pc # "idle"

NextTwoCalls ==
    \/ \E c \in DOMAIN call :
          ~Busy(c) /\ StartOptimizeOf(c, TwoCallScheduleRequests)
    \/ \E c \in DOMAIN call : Pass1Iteration(c)
    \/ \E c \in DOMAIN call : ComputeBaseline(c)
    \/ \E c \in DOMAIN call : Pass2Iteration(c)
    \/ \E c \in DOMAIN call : ReturnSchedule(c)
    \/ \E c \in DOMAIN mnf_call :
          ~Busy(c) /\ CheckReadingsOf(c, TwoCallMnfRequests)
    \/ \E c \in DOMAIN mnf_call : AnalyzeMinimumNightFlow(c)
    \/ \E c \in DOMAIN leak_call :
          ~Busy(c) /\ ValidateLeakRequestOf(c, TwoCallLeakRequests)
    \/ \E c \in DOMAIN leak_call : AnalyzeLeakIndicators(c)
    \/ \E c \in DOMAIN leak_call : ConstructLeakAnalysis(c)

SpecTwoCalls == InitTwoCalls /\ [][NextTwoCalls]_vars

(***************************************************************************)
(* Properties of the water balance, under SpecWaterBalance                 *)
(***************************************************************************)
\* the components of a WaterBalance record summed
ComponentSum(wb) ==
    wb.billed_authorized_consumption + wb.unbilled_authorized_consumption
        + wb.apparent_losses + wb.real_losses

\* the remainder before the max(0, ...) floor; the floor changes it iff < 0
Remainder(wb) ==
    wb.system_input_volume - wb.billed_authorized_consumption
        - wb.unbilled_authorized_consumption - wb.apparent_losses

\* C1 as stated: for every accepted input the components sum to at most
\* system_input_volume, with equality when real_losses was not clamped.
C1_SumAtMostInput ==
    wb_pc = "done" =>
        /\ ComponentSum(wb_result) <= wb_result.system_input_volume
        /\ Remainder(wb_result) >= 0 =>
               ComponentSum(wb_result) = wb_result.system_input_volume

\* C1 amended: for every accepted input the components sum to at least
\* system_input_volume, with equality when real_losses was not clamped.
C1_SumAtLeastInput ==
    wb_pc = "done" =>
        /\ ComponentSum(wb_result) >= wb_result.system_input_volume
        /\ Remainder(wb_result) >= 0 =>
               ComponentSum(wb_result) = wb_result.system_input_volume

\* a result whose real losses were clamped and whose components exceed the
\* system input, and which has a positive apparent loss
C1_Witness ==
    /\ wb_pc = "done"
    /\ Remainder(wb_result) < 0
    /\ wb_result.real_losses = 0
    /\ wb_result.apparent_losses > 0
    /\ ComponentSum(wb_result) > wb_result.system_input_volume

\* C2: every stored and derived field of the result is the stated function
\* of the accepted input.
C2_FieldsFromInput ==
    wb_pc = "done" =>
        LET i      == wb_request
            r      == wb_result
            billed == i.billed_metered_consumption + i.billed_unmetered_consumption
            unbill == i.unbilled_metered_consumption
                          + i.unbilled_unmetered_consumption
            appar  == i.unauthorized_consumption + i.meter_inaccuracies
            rest   == i.system_input_volume - billed - unbill - appar
            real   == IF rest > 0 THEN rest ELSE 0
        IN  /\ r.system_input_volume = i.system_input_volume
            /\ r.billed_authorized_consumption = billed
            /\ r.unbilled_authorized_consumption = unbill
            /\ r.apparent_losses = appar
            /\ r.real_losses = real
            /\ authorized_consumption(r) = billed + unbill
            /\ water_losses(r) = appar + real
            /\ revenue_water(r) = billed
            /\ non_revenue_water(r) = i.system_input_volume - billed

\* a result with every input component and the real losses positive
C2_Witness ==
    /\ wb_pc = "done"
    /\ wb_request.billed_metered_consumption > 0
    /\ wb_request.billed_unmetered_consumption > 0
    /\ wb_request.unbilled_metered_consumption > 0
    /\ wb_request.unbilled_unmetered_consumption > 0
    /\ wb_request.unauthorized_consumption > 0
    /\ wb_request.meter_inaccuracies > 0
    /\ wb_result.real_losses > 0
    /\ non_revenue_water(wb_result) # Remainder(wb_result)

\* C3: nrw_percentage is non_revenue_water / system_input_volume * 100 at
\* the nearest hundredth when system_input_volume # 0, and the three
\* percentages are 0 when system_input_volume = 0.
C3_NrwPercentage ==
    wb_pc \in {"done", "constructed"} =>
        LET r == wb_result
        IN  IF r.system_input_volume = 0
            THEN /\ nrw_percentage(r) = 0
                 /\ real_losses_percentage(r) = 0
                 /\ apparent_losses_percentage(r) = 0
            ELSE 2 * Abs(nrw_percentage(r) * r.system_input_volume
                           - non_revenue_water(r) * 100 * 100)
                     <= Abs(r.system_input_volume)

\* a record with system_input_volume = 0 and non-zero numerators
C3_Witness ==
    /\ wb_pc = "constructed"
    /\ wb_result.system_input_volume = 0
    /\ wb_result.real_losses > 0
    /\ wb_result.apparent_losses > 0
    /\ non_revenue_water(wb_result) # 0
    /\ nrw_percentage(wb_result) = 0

\* a computed result whose percentage is not a whole number of hundredths
C3_RoundingWitness ==
    /\ wb_pc = "done"
    /\ (non_revenue_water(wb_result) * 100 * 100) % wb_result.system_input_volume # 0
    /\ 2 * ((non_revenue_water(wb_result) * 100 * 100) % wb_result.system_input_volume)
           > wb_result.system_input_volume

\* C4: a request with system_input_volume <= 0 is rejected with a
\* validation error and no result is built for it.
C4_NonPositiveInputRejected ==
    (wb_pc \in {"validated", "rejected", "done"}
        /\ wb_request.system_input_volume <= 0) =>
            /\ wb_pc = "rejected"
            /\ wb_error = "ValidationError"
            /\ wb_result = NoValue

\* a rejected request whose only fault is system_input_volume = 0
C4_Witness ==
    /\ wb_pc = "rejected"
    /\ wb_request.system_input_volume = 0
    /\ wb_request.billed_metered_consumption >= 0
    /\ wb_request.billed_unmetered_consumption >= 0
    /\ wb_request.unbilled_metered_consumption >= 0
    /\ wb_request.unbilled_unmetered_consumption >= 0
    /\ wb_request.unauthorized_consumption >= 0
    /\ wb_request.meter_inaccuracies >= 0
    /\ wb_request.period_end >= wb_request.period_start

\* C5 as stated: an input with period_end < period_start is rejected by
\* validation, so no result has period_days < 1.
C5_ReversedPeriodRejected ==
    /\ (wb_pc \in {"validated", "rejected", "done"}
           /\ wb_request.period_end < wb_request.period_start) =>
               wb_pc = "rejected"
    /\ wb_pc = "done" => wb_result.period_days >= 1

(***************************************************************************)
(* Properties of the pump schedule, under SpecPump                         *)
(***************************************************************************)
\* the calls that have returned a PumpSchedule
Returned == {c \in DOMAIN call : call[c].pc = "done"}

\* tank_level_m3 is a count of hundredths, the request's levels are counts
\* of 1 / Scale: level_m3 / 100 >= v / Scale
LevelAtLeast(level_m3, v) == level_m3 * Scale >= v * 100

\* C6 as stated: in the returned schedule every hourly tank level is at
\* least the request's minimum level.
C6_LevelAtLeastMinimum ==
    \A c \in Returned :
        \A i \in 1..Len(call[c].result.hourly_schedule) :
            LevelAtLeast(call[c].result.hourly_schedule[i].tank_level_m3,
                         call[c].request.tank_min_level_m3)

\* C7 as stated: the schedule costs no more than continuous operation,
\* total_cost <= baseline_cost + 0.01.
C7_CostAtMostBaseline ==
    \A c \in Returned :
        call[c].result.total_cost <= call[c].result.baseline_cost + 1

\* C8: every recorded hourly tank level is >= 0, and so is the running level
\* carried from one hour of the second pass to the next.
C8_LevelNeverNegative ==
    \A c \in DOMAIN call :
        /\ call[c].pc \in {"pass2", "summary", "done"} =>
              /\ \A i \in 1..Len(call[c].hourly_schedules) :
                     call[c].hourly_schedules[i].tank_level_m3 >= 0
              /\ Len(call[c].hourly_schedules) > 0 => call[c].tank_level >= 0
        /\ call[c].pc = "done" =>
              \A i \in 1..Len(call[c].result.hourly_schedule) :
                  call[c].result.hourly_schedule[i].tank_level_m3 >= 0

\* a returned schedule whose hour 0 drew more than the tank could hold even
\* with the pump on, so that the level was clamped to 0
C8_Witness ==
    \E c \in Returned :
        /\ call[c].request.tank_current_level_m3 = 0
        /\ call[c].request.pump_flow_rate_m3h
               < call[c].request.demand_forecast_m3h[1]
        /\ call[c].result.hourly_schedule[1].pump_on
        /\ call[c].result.hourly_schedule[1].tank_level_m3 = 0

\* C9: the returned schedule has exactly 24 entries and the entry at
\* position i (from 0) has hour = i.
C9_TwentyFourHoursInOrder ==
    \A c \in Returned :
        /\ Len(call[c].result.hourly_schedule) = 24
        /\ \A i \in 1..Len(call[c].result.hourly_schedule) :
               call[c].result.hourly_schedule[i].hour = i - 1

\* a returned schedule, with its last entry
C9_Witness ==
    \E c \in Returned :
        /\ Len(call[c].result.hourly_schedule) = 24
        /\ call[c].result.hourly_schedule[24].hour = 23

\* the hours (from 0) at which schedule s has the pump on
PumpOnHours(s) == {i - 1 : i \in {j \in 1..Len(s) : s[j].pump_on}}

MnfReturned == {c \in DOMAIN mnf_call : mnf_call[c].pc = "done"}

LeakReturned == {c \in DOMAIN leak_call : leak_call[c].pc = "done"}

\* C11: two calls of an engine with identical input return result records
\* that are identical in every field (stated here of optimize_pump_schedule,
\* analyze_minimum_night_flow and analyze_leak_indicators)
C11_SameInputSameResult ==
    /\ \A a, b \in Returned :
          call[a].request = call[b].request => call[a].result = call[b].result
    /\ \A a, b \in MnfReturned :
          mnf_call[a].request = mnf_call[b].request
              => mnf_call[a].result = mnf_call[b].result
    /\ \A a, b \in LeakReturned :
          leak_call[a].request = leak_call[b].request
              => leak_call[a].result = leak_call[b].result

\* what does hold: two such calls differ in nothing but the clock reading
\* stored in generated_at / analysis_timestamp
SameInputSameResultButTimestamp ==
    /\ \A a, b \in Returned :
          call[a].request = call[b].request
              => [call[a].result EXCEPT !.generated_at = 0]
                     = [call[b].result EXCEPT !.generated_at = 0]
    /\ \A a, b \in MnfReturned :
          mnf_call[a].request = mnf_call[b].request
              => mnf_call[a].result = mnf_call[b].result
    /\ \A a, b \in LeakReturned :
          leak_call[a].request = leak_call[b].request
              => [leak_call[a].result EXCEPT !.analysis_timestamp = 0]
                     = [leak_call[b].result EXCEPT !.analysis_timestamp = 0]

\* the local variables of a call
LocalVariables(f) ==
    [ hourly_schedules |-> f.hourly_schedules,
      tank_level       |-> f.tank_level,
      total_runtime    |-> f.total_runtime,
      total_cost       |-> f.total_cost,
      mandatory_hours  |-> f.mandatory_hours,
      sim_level        |-> f.sim_level ]

\* the frame of a call that ran alone on the request of f as far as f has
\* run: through the iterations of the first loop before f.hour, or through
\* the first loop and the iterations of the second loop before f.hour
RECURSIVE Pass1Before(_, _)
Pass1Before(f, hour) ==
    IF f.hour = hour THEN f
    ELSE Pass1Before([Pass1Body(f) EXCEPT !.hour = f.hour + 1], hour)

RECURSIVE Pass2Before(_, _)
Pass2Before(f, hour) ==
    IF f.hour = hour THEN f
    ELSE Pass2Before([Pass2Body(f) EXCEPT !.hour = f.hour + 1], hour)

AloneFrame(f) ==
    LET entry == [IdleFrame EXCEPT
                     !.request = f.request,
                     !.tank_level = f.request.tank_current_level_m3,
                     !.sim_level = f.request.tank_current_level_m3]
    IN  CASE f.pc = "pass1"    -> Pass1Before(entry, f.hour)
          [] f.pc = "baseline" -> RunPass1(entry)
          [] f.pc = "pass2"    ->
                 Pass2Before([RunPass1(entry) EXCEPT !.hour = 0], f.hour)
          [] OTHER             ->
                 RunPass2([RunPass1(entry) EXCEPT !.hour = 0])

InFlight == {c \in DOMAIN call : call[c].pc \in {"pass1", "baseline",
                                                  "pass2", "summary"}}

\* C12: whatever the interleaving of the steps of concurrent calls, the local
\* variables of a call in flight are those of a call running alone on its
\* request, and a call returns what it returns when it runs alone on its
\* request (with the same clock reading)
C12_ConcurrentCallsReturnAsAlone ==
    /\ \A c \in InFlight :
          LocalVariables(call[c]) = LocalVariables(AloneFrame(call[c]))
    /\ \A c \in Returned :
          call[c].result =
              optimize_pump_schedule(call[c].request,
                                     call[c].result.generated_at)
    /\ \A c \in MnfReturned :
          mnf_call[c].result = MnfResultOf(mnf_call[c].request)
    /\ \A c \in LeakReturned :
          leak_call[c].result =
              LeakAnalysis(leak_call[c].request,
                           LeakWorkingValues(leak_call[c].request),
                           leak_call[c].result.analysis_timestamp)

\* two optimize_pump_schedule calls on different requests have both returned,
\* with different schedules
C12_Witness ==
    /\ Returned = {1, 2}
    /\ call[1].request # call[2].request
    /\ call[1].result.total_runtime_hours # call[2].result.total_runtime_hours
    /\ call[1].result.total_runtime_hours > 0

(***************************************************************************)
(* Properties of the minimum night flow analysis, under SpecMnf            *)
(***************************************************************************)
\* C13 (as stated): for a series of at least 24 flows, mnf_hour is 2 or 3,
\* the earliest hour of the window with the least flow, and minimum_flow_m3h
\* is min(series[2], series[3])
C13_MinimumOfWindow ==
    \A c \in MnfReturned :
        LET s == mnf_call[c].request.hourly_flows
            r == mnf_call[c].result
        IN  /\ r.mnf_hour \in {2, 3}
            /\ r.mnf_hour = IF s[3] <= s[4] THEN 2 ELSE 3
            /\ r.minimum_flow_m3h * FlowScale = 1000 * Min(s[3], s[4])

\* C13 (amended): for a series of at least 24 flows, mnf_hour is 2 or 3,
\* the earliest hour of the window with the least flow, and minimum_flow_m3h
\* is min(series[2], series[3]) rounded to 3 decimals
C13_RoundedMinimumOfWindow ==
    \A c \in MnfReturned :
        LET s == mnf_call[c].request.hourly_flows
            r == mnf_call[c].result
        IN  /\ Len(s) >= 24
            /\ r.mnf_hour \in {2, 3}
            /\ r.mnf_hour = IF s[3] <= s[4] THEN 2 ELSE 3
            /\ r.minimum_flow_m3h = Round3(Min(s[3], s[4]), FlowScale)

\* a tie in the window, on a flow that round(x, 3) changes
C13_Witness ==
    \E c \in MnfReturned :
        LET s == mnf_call[c].request.hourly_flows
            r == mnf_call[c].result
        IN  /\ s[3] = s[4]
            /\ r.mnf_hour = 2
            /\ r.minimum_flow_m3h * FlowScale # 1000 * s[3]

\* C14: a call with fewer than 24 hourly values raises the insufficient-data
\* error (ValueError) before anything is computed and returns no MNFResult
C14_ShortSeriesRaises ==
    \A c \in DOMAIN mnf_call :
        (/\ mnf_call[c].pc # "idle"
         /\ Len(mnf_call[c].request.hourly_flows) < 24)
        => /\ mnf_call[c].pc = "raised"
           /\ mnf_call[c].error = "ValueError"
           /\ mnf_call[c].result = NoValue

\* a call with 23 values has raised
C14_Witness ==
    \E c \in DOMAIN mnf_call :
        /\ mnf_call[c].pc = "raised"
        /\ Len(mnf_call[c].request.hourly_flows) = 23

\* C15: the result for a series of more than 24 values is the result for its
\* first 24 values
C15_OnlyFirstDayUsed ==
    \A c \in MnfReturned :
        LET q == mnf_call[c].request
        IN  Len(q.hourly_flows) > 24 =>
                mnf_call[c].result =
                    MnfResultOf([q EXCEPT !.hourly_flows =
                                     SubSeq(q.hourly_flows, 1, 24)])

\* a series whose 25th value is below every other value has been analysed
C15_Witness ==
    \E c \in MnfReturned :
        LET s == mnf_call[c].request.hourly_flows
        IN  /\ Len(s) > 24
            /\ \A h \in 1..24 : s[25] < s[h]
            /\ mnf_call[c].result.minimum_flow_m3h > 0

\* low < medium < high
ConfidenceRank(confidence) ==
    IF confidence = "low" THEN 0 ELSE IF confidence = "medium" THEN 1 ELSE 2

\* the confidence the analysed series gets with the given connections
ConfidenceWith(c, connections) ==
    LET flows == FirstDay(mnf_call[c].request.hourly_flows)
    IN  assess_confidence(FlowValue(MinimumFlow(flows)),
                          AverageNightFlow(flows), NightDayRatio(flows),
                          connections)

\* one number of connections in each band, and the band limits
BandConnections == {1, 199, 200, 499, 500, 1000}

\* C16: with minimum flow, average night flow and night/day ratio equal, the
\* confidence never rises as the connections fall
C16_ConfidenceMonotone ==
    \A c \in MnfReturned :
        /\ mnf_call[c].result.confidence =
               ConfidenceWith(c, mnf_call[c].request.service_connections)
        /\ \A fewer, more \in BandConnections :
               fewer <= more =>
                   ConfidenceRank(ConfidenceWith(c, fewer))
                       <= ConfidenceRank(ConfidenceWith(c, more))

\* a series analysed with 199 connections is rated medium, and would be
\* rated high with 500
C16_Witness ==
    \E c \in MnfReturned :
        /\ mnf_call[c].request.service_connections = 199
        /\ mnf_call[c].result.confidence = "medium"
        /\ ConfidenceWith(c, 500) = "high"

(***************************************************************************)
(* Properties of the leak indicators, under SpecLeak                       *)
(***************************************************************************)
\* C17: the risk score is 0.40 * ILI score + 0.25 * trend score + 0.35 *
\* leakage-rate score, each score at most 100, and the reported risk_score
\* lies in [0, 100], also when ILI is infinite
C17_RiskScoreWeightedAndBounded ==
    \A c \in LeakReturned :
        LET w           == leak_call[c].working
            ili_score   == IliScore(w.ili)
            trend_score == TrendScore(w.trend, w.slope)
            rate_score  == RateScore(w.leakage_rate)
        IN  /\ \A score \in {ili_score, trend_score, rate_score} :
                   AtLeast(score, Whole(0)) /\ AtLeast(Whole(100), score)
            /\ w.risk_score =
                   Plus(Plus(Times(Rat(40, 100), ili_score),
                             Times(Rat(25, 100), trend_score)),
                        Times(Rat(35, 100), rate_score))
            /\ leak_call[c].result.risk_score = RoundTo(w.risk_score, 10)
            /\ leak_call[c].result.risk_score \in 0..1000

\* an analysis with infinite ILI and an increasing trend whose score is below
\* its cap has been returned, with a risk score above 60
C17_Witness ==
    \E c \in LeakReturned :
        /\ IsInfinite(leak_call[c].working.ili)
        /\ leak_call[c].working.trend = "increasing"
        /\ Less(TrendScore("increasing", leak_call[c].working.slope), Whole(100))
        /\ leak_call[c].result.risk_score > 600

PriorityRank(priority) ==
    IF priority = "low" THEN 0
    ELSE IF priority = "medium" THEN 1
    ELSE IF priority = "high" THEN 2
    ELSE 3

\* C18: priority is critical when risk >= 75 or (risk >= 60 and the trend is
\* increasing), else high when risk >= 50, else medium when risk >= 30, else
\* low; for a fixed trend a higher risk never yields a lower priority
C18_PriorityRule ==
    \A c \in LeakReturned :
        LET w    == leak_call[c].working
            risk == w.risk_score
            p    == leak_call[c].result.priority
        IN  /\ p = "critical" <=>
                   (\/ AtLeast(risk, Whole(75))
                    \/ (AtLeast(risk, Whole(60)) /\ w.trend = "increasing"))
            /\ p = "high" <=> (p # "critical" /\ AtLeast(risk, Whole(50)))
            /\ p = "medium" <=>
                   (p \notin {"critical", "high"} /\ AtLeast(risk, Whole(30)))
            /\ p = "low" <=> Less(risk, Whole(30))
            /\ \A k \in 0..100 :
                   /\ AtLeast(risk, Whole(k)) =>
                          PriorityRank(determine_priority(Whole(k), w.trend))
                              <= PriorityRank(p)
                   /\ AtLeast(Whole(k), risk) =>
                          PriorityRank(determine_priority(Whole(k), w.trend))
                              >= PriorityRank(p)

\* an increasing zone with a risk in [60, 75) is critical
C18_Witness ==
    \E c \in LeakReturned :
        /\ leak_call[c].working.trend = "increasing"
        /\ AtLeast(leak_call[c].working.risk_score, Whole(60))
        /\ Less(leak_call[c].working.risk_score, Whole(75))
        /\ leak_call[c].result.priority = "critical"

\* C19: when UARL is 0 the analysis is returned with ILI infinite; otherwise
\* ILI is CARL / UARL and is not negative
C19_IliInfiniteOrNonNegative ==
    \A c \in LeakReturned :
        LET w == leak_call[c].working
        IN  IF w.uarl_lpd.n = 0
            THEN /\ IsInfinite(w.ili)
                 /\ leak_call[c].result.infrastructure_leakage_index.inf
            ELSE /\ ~IsInfinite(w.ili)
                 /\ w.ili = Over(w.carl_lpd, w.uarl_lpd)
                 /\ AtLeast(w.ili, Whole(0))

\* the part of C19 that holds: with UARL = 0 nothing is divided by zero and a
\* LeakAnalysis with infinite ILI is returned; with UARL > 0, ILI = CARL / UARL
ZeroUarlGivesInfiniteIli ==
    \A c \in DOMAIN leak_call :
        LET q == leak_call[c].request
            w == leak_call[c].working
        IN  /\ (leak_call[c].pc = "constructing"
                    /\ q.system_pressure = 0) =>
                   IsInfinite(w.ili) /\ AtLeast(Whole(100), w.risk_score)
            /\ (leak_call[c].pc \in {"constructing", "done"}
                    /\ q.system_pressure > 0) =>
                   w.ili = Over(w.carl_lpd, w.uarl_lpd)

C20_RefreshRefused ==
    /\ http.pc = "responded"
    /\ http.credentials.type = "refresh"
    /\ http.credentials.key = "jwt_secret_key"
    /\ http.credentials.exp >= http.checked_at
    /\ http.detail = "Invalid token type"

(***************************************************************************)
(* Properties of the first pass of optimize_pump_schedule, under SpecPump  *)
(***************************************************************************)
\* the simulated level the iteration of frame f tests at line 127
LoweredLevel(f) == f.sim_level - f.request.demand_forecast_m3h[f.hour + 1]

\* the iteration of the first loop that call c is about to run detects a
\* violation
ViolationDetected(c) ==
    /\ call[c].pc = "pass1"
    /\ LoweredLevel(call[c]) < call[c].request.tank_min_level_m3

\* h is an hour of 0..t that is not in mandatory and has the lowest rate of
\* those hours, the earliest one on ties
EarliestCheapest(req, mandatory, t, h) ==
    /\ h \in (0..t) \ mandatory
    /\ \A g \in (0..t) \ mandatory :
          \/ req.electricity_rates[h + 1] < req.electricity_rates[g + 1]
          \/ /\ req.electricity_rates[h + 1] = req.electricity_rates[g + 1]
             /\ h <= g

Pass1Finished == {c \in DOMAIN call : \/ call[c].pc = "pass1" /\ call[c].hour >= 1
                                      \/ call[c].pc = "baseline"}

FinishedHour(c) == IF call[c].pc = "pass1" THEN call[c].hour - 1 ELSE Hours - 1

\* C24 as stated: when the iteration of the first loop for hour t has
\* finished, the simulated level at hour t is at least the minimum level,
\* unless every hour of 0..t is mandatory.
C24_Pass1RestoresMinimum ==
    \A c \in Pass1Finished :
        \/ call[c].sim_level >= call[c].request.tank_min_level_m3
        \/ (0..FinishedHour(c)) \subseteq call[c].mandatory_hours

\* lines 166-175: the level of the second loop's iteration on frame f before
\* it is clamped at 0
DrawnLevel(f) ==
    LET req == f.request
    IN  (IF PumpOn(f.hour, f.mandatory_hours)
         THEN Min(f.tank_level + req.pump_flow_rate_m3h, req.tank_capacity_m3)
         ELSE f.tank_level) - req.demand_forecast_m3h[f.hour + 1]

\* the second loop run on request req with the pump on in the hours of
\* mandatory, through hour last: the level it realizes at hour last, and
\* whether an iteration clamped the level at 0
RECURSIVE Realize(_, _, _)
Realize(f, last, clamped) ==
    IF f.hour > last THEN [level |-> f.tank_level, clamped |-> clamped]
    ELSE Realize([Pass2Body(f) EXCEPT !.hour = f.hour + 1], last,
                 clamped \/ DrawnLevel(f) < 0)

RealizedLevel(req, mandatory, last) ==
    Realize([IdleFrame EXCEPT !.request = req,
                              !.tank_level = req.tank_current_level_m3,
                              !.mandatory_hours = mandatory],
            last, FALSE)

\* C25 as stated: the level the first loop re-simulates for hour t, with its
\* mandatory set, is the level the second loop realizes at hour t with that
\* set, whenever the second loop does not clamp the level at 0 in 0..t.
C25_ResimulationAsPass2 ==
    [][\A c \in DOMAIN call :
          (ViolationDetected(c) /\ call'[c] # call[c]) =>
              LET realized == RealizedLevel(call[c].request,
                                            call'[c].mandatory_hours,
                                            call[c].hour)
              IN  realized.clamped
                      \/ call'[c].sim_level = realized.level]_vars

\* the iterations of the first loop that call c has finished
Pass1Iterations(c) ==
    CASE call[c].pc \in {"idle", "rejected"} -> 0
      [] call[c].pc = "pass1"                -> call[c].hour
      [] OTHER                               -> Hours

\* the iterations of the second loop that call c has finished
Pass2Iterations(c) ==
    CASE call[c].pc = "pass2"               -> call[c].hour
      [] call[c].pc \in {"summary", "done"} -> Hours
      [] OTHER                              -> 0

\* C26: a started call returns; the first loop runs at most 24 iterations,
\* each over at most 24 hours and adding at most one mandatory hour (at most
\* 24 in all); the second loop has run exactly 24 iterations, one schedule
\* entry each, when the result is returned.
C26_Terminates ==
    /\ (call[1].pc = "pass1") ~> (call[1].pc = "done")
    /\ [](\A c \in DOMAIN call :
             /\ call[c].hour \in 0..(Hours - 1)
             /\ Cardinality(call[c].mandatory_hours) <= Pass1Iterations(c)
             /\ call[c].mandatory_hours \subseteq 0..(Hours - 1)
             /\ Len(call[c].hourly_schedules) = Pass2Iterations(c)
             /\ call[c].pc = "done" =>
                   Len(call[c].result.hourly_schedule) = Hours)
    /\ [][\A c \in DOMAIN call :
             /\ Cardinality(call'[c].mandatory_hours)
                    <= Cardinality(call[c].mandatory_hours) + 1
             /\ Pass1Iterations(c) <= Pass1Iterations(c)'
             /\ Pass1Iterations(c)' <= Pass1Iterations(c) + Hours
             /\ Pass2Iterations(c)' \in {Pass2Iterations(c),
                                         Pass2Iterations(c) + 1}]_vars

\* a call has returned after a first loop that marked hours and a second
\* loop of 24 iterations
C26_Witness ==
    /\ call[1].pc = "done"
    /\ call[1].mandatory_hours # {}
    /\ Len(call[1].hourly_schedules) = Hours

\* the tank levels after hour h (from 0) that some on/off assignment of the
\* hours 0..h reaches while keeping every level of 0..h at or above the
\* minimum: the pump flow is added and capped at the capacity, then the
\* demand is subtracted
RECURSIVE FeasibleLevels(_, _)
FeasibleLevels(req, h) ==
    LET before == IF h = 0 THEN {req.tank_current_level_m3}
                  ELSE FeasibleLevels(req, h - 1)
        after  == { (IF on
                     THEN Min(level + req.pump_flow_rate_m3h, req.tank_capacity_m3)
                     ELSE level) - req.demand_forecast_m3h[h + 1] :
                        level \in before, on \in BOOLEAN }
    IN  {level \in after : level >= req.tank_min_level_m3}

Feasible(req) == FeasibleLevels(req, Hours - 1) # {}

NonNegativeDemand(req) ==
    \A h \in 1..Len(req.demand_forecast_m3h) : req.demand_forecast_m3h[h] >= 0

\* C27 as stated: for a request with non-negative demands that some on/off
\* assignment of the 24 hours serves without the level falling below the
\* minimum, every hourly level of the returned schedule is at least the
\* minimum.
C27_FeasibleRequestServed ==
    \A c \in Returned :
        (NonNegativeDemand(call[c].request) /\ Feasible(call[c].request)) =>
            \A i \in 1..Len(call[c].result.hourly_schedule) :
                LevelAtLeast(call[c].result.hourly_schedule[i].tank_level_m3,
                             call[c].request.tank_min_level_m3)

\* the request's current level is within the capacity and no demand is
\* negative
WithinCapacity(req) ==
    /\ req.tank_current_level_m3 <= req.tank_capacity_m3
    /\ NonNegativeDemand(req)

\* the hourly levels of a returned schedule lie between its min_tank_level_m3
\* and max_tank_level_m3, and each of the two is the level of some hour
LevelsWithinSummary(result) ==
    LET s == result.hourly_schedule
    IN  /\ \A i \in 1..Len(s) :
               /\ result.min_tank_level_m3 <= s[i].tank_level_m3
               /\ s[i].tank_level_m3 <= result.max_tank_level_m3
        /\ \E i \in 1..Len(s) : s[i].tank_level_m3 = result.min_tank_level_m3
        /\ \E i \in 1..Len(s) : s[i].tank_level_m3 = result.max_tank_level_m3

\* C28 as stated: for a request whose current level is within the capacity
\* and whose demands are non-negative, every hourly tank_level_m3 is at most
\* tank_capacity_m3, and the hourly levels lie between min_tank_level_m3 and
\* max_tank_level_m3, both attained.
C28_LevelAtMostCapacity ==
    \A c \in Returned :
        WithinCapacity(call[c].request) =>
            /\ \A i \in 1..Len(call[c].result.hourly_schedule) :
                   call[c].result.hourly_schedule[i].tank_level_m3 * Scale
                       <= call[c].request.tank_capacity_m3 * 100
            /\ LevelsWithinSummary(call[c].result)

\* C28 (amended): for such a request the level carried by the second loop
\* is at most the capacity, every hourly tank_level_m3, which is that level
\* rounded to 2 decimals, is at most the capacity rounded to 2 decimals, and
\* the hourly levels lie between min_tank_level_m3 and max_tank_level_m3,
\* both attained.
C28_RoundedLevelAtMostCapacity ==
    \A c \in {d \in DOMAIN call : call[d].pc \in {"pass2", "summary", "done"}} :
        WithinCapacity(call[c].request) =>
            /\ call[c].tank_level <= call[c].request.tank_capacity_m3
            /\ \A i \in 1..Len(call[c].hourly_schedules) :
                   call[c].hourly_schedules[i].tank_level_m3
                       <= Round2(call[c].request.tank_capacity_m3, Scale)
            /\ call[c].pc = "done" =>
                  /\ \A i \in 1..Len(call[c].result.hourly_schedule) :
                         call[c].result.hourly_schedule[i].tank_level_m3
                             <= Round2(call[c].request.tank_capacity_m3, Scale)
                  /\ LevelsWithinSummary(call[c].result)

\* a returned schedule of a full tank: the pump ran into the capacity at
\* hour 0, the level of hour 0 is the capacity rounded up, and the lowest
\* hourly level is below the highest
C28_Witness ==
    \E c \in Returned :
        LET s == call[c].result.hourly_schedule
        IN  /\ WithinCapacity(call[c].request)
            /\ call[c].request.tank_current_level_m3
                   = call[c].request.tank_capacity_m3
            /\ s[1].pump_on
            /\ s[1].tank_level_m3 * Scale > call[c].request.tank_capacity_m3 * 100
            /\ call[c].result.min_tank_level_m3 < call[c].result.max_tank_level_m3

(***************************************************************************)
(* Properties of the pump efficiency analysis, under SpecEfficiency        *)
(***************************************************************************)
\* the calls of analyze_pump_efficiency that have returned
ReturnedEfficiencyCalls == {c \in DOMAIN eff_call : eff_call[c].pc = "done"}

\* C29: maintenance_recommended is true exactly when efficiency_rating is
\* fair or poor: a pump rated excellent or good is never flagged for
\* maintenance and one rated fair or poor always is.
C29_MaintenanceIffFairOrPoor ==
    \A c \in ReturnedEfficiencyCalls :
        eff_call[c].report.maintenance_recommended
            <=> eff_call[c].report.efficiency_rating \in {"fair", "poor"}

(***************************************************************************)
(* Properties of the obligation tracking, under SpecObligations            *)
(***************************************************************************)
\* the worker's latest call was update_obligation_status and it has ended
UpdateEnded(c) == ob_call[c].op = "update" /\ ob_call[c].pc \in {"returned", "raised"}

\* the dictionary has the status, notes and completion_date of the sample
SampleUntouched(obligations) ==
    LET sample == get_sample_obligations(today)
    IN  /\ DOMAIN obligations = DOMAIN sample
        /\ \A id \in DOMAIN sample :
              /\ obligations[id].status = sample[id].status
              /\ obligations[id].notes = sample[id].notes
              /\ obligations[id].completion_date = sample[id].completion_date

\* C21: update_obligation_status called with an obligation id that is not in
\* the store fails with a not-found error and changes no obligation's
\* status, notes or completion_date.
C21_UnknownIdRaisesAndChangesNothing ==
    \A c \in DOMAIN ob_call :
        (UpdateEnded(c) /\ ob_call[c].update_args.obligation_id \notin DOMAIN get_sample_obligations(today))
            => /\ ob_call[c].pc = "raised"
               /\ ob_call[c].error = "ValueError: Obligation not found"
               /\ ob_call[c].updated = NoValue
               /\ SampleUntouched(ob_call[c].obligations)
               /\ obligations_db = [id \in {} |-> NoValue]

\* an update of NONEXISTENT-ID to COMPLETED, as in
\* test_update_nonexistent_raises, has ended
C21_Witness ==
    \E c \in DOMAIN ob_call :
        /\ UpdateEnded(c)
        /\ ob_call[c].update_args.obligation_id = "NONEXISTENT-ID"
        /\ ob_call[c].update_args.status = COMPLETED
        /\ ob_call[c].pc = "raised"

\* the list is in non-decreasing due_date order
SortedByDueDate(listed) ==
    \A i \in DOMAIN listed : \A j \in DOMAIN listed :
        i < j => listed[i].due_date <= listed[j].due_date

\* every obligation of the list satisfies each filter that was supplied
SatisfiesFilters(listed, args, day) ==
    \A i \in DOMAIN listed :
        /\ args.status.given => listed[i].status = args.status.value
        /\ args.category.given => listed[i].category = args.category.value
        /\ args.due_within_days.given => listed[i].due_date <= day + args.due_within_days.value

\* C22: for any combination of filters, get_obligations returns the
\* obligations in non-decreasing due_date order, and every returned
\* obligation satisfies each supplied filter (status, category, due_date <=
\* today + due_within_days).
C22_SortedAndFiltered ==
    [][ \A c \in DOMAIN ob_call :
          (ob_call[c].pc = "get" /\ ob_call'[c].pc = "returned")
              => /\ SortedByDueDate(ob_call'[c].listed)
                 /\ SatisfiesFilters(ob_call'[c].listed, ob_call[c].get_args, today) ]_vars

\* get_obligations was called without a filter
Unfiltered(args) == ~args.status.given /\ ~args.category.given /\ ~args.due_within_days.given

\* C30: after update_obligation_status(id, COMPLETED) succeeds, a subsequent
\* get_obligations() returns obligation id with status COMPLETED, and
\* get_obligations(status=PENDING) no longer returns it.
C30_UpdateVisibleToLaterReads ==
    \A c \in DOMAIN ob_call :
        LET f == ob_call[c]
        IN  (f.op = "get" /\ f.pc = "returned" /\ f.error = "none" /\ f.update_args # NoValue /\ f.update_args.status = COMPLETED)
                => /\ Unfiltered(f.get_args)
                        => \E i \in DOMAIN f.listed :
                              /\ f.listed[i].id = f.update_args.obligation_id
                              /\ f.listed[i].status = COMPLETED
                   /\ f.get_args.status = Some(PENDING)
                        => \A i \in DOMAIN f.listed :
                              f.listed[i].id # f.update_args.obligation_id

====
